---- MODULE Spec2Model ----
(***************************************************************************)
(* Crisis risk scoring, batch analysis and trend forecasting of the        *)
(* Global Socio-Economic Dashboard.                                        *)
(*                                                                         *)
(* Numbers: a JavaScript value is a record [t, v]; t is "number",          *)
(* "undefined" or "NaN".  A number's v counts HALVES (fixed point), so     *)
(* that the threshold 2.5 of the food model is the integer 5: Fx(n) is the *)
(* model value of the source literal n.                                    *)
(***************************************************************************)
EXTENDS Integers, Sequences, FiniteSets, TLC

VARIABLES
    fn, data, result,          \* one call of a scoring function: callee, argument, return value
    rows,                      \* DataLoader.getCombinedData(): the merged rows, in dataset order
    riskMap,                   \* return value of calculateCountryRisks
    countryData,               \* return value of DataLoader.getCountryData
    crisisType,                \* CrisisAnalyzer state: 'economic' | 'food'
    pc,                        \* runAnalysis: the statement it has reached
    countries, i,              \* runAnalysis: the country list and the loop index
    crisisResults,             \* runAnalysis: the local result array
    results, loading, progress,\* CrisisAnalyzer state set by runAnalysis
    requests,                  \* the analyses made: country, latestData, input, probability
    report,                    \* generateCrisisReport: what it was given and what it listed
    historicalData,            \* forecastIndicator: the points passed in
    yearsToForecast,           \* forecastIndicator: the horizon passed in
    forecast,                  \* forecastIndicator: the return value
    growthRate,                \* calculateGrowthRate: the return value
    economicDataCache,         \* DataLoader.economicDataCache
    foodDataCache,             \* DataLoader.foodDataCache
    fetches,                   \* the requests made by the DataLoader, in order
    calls                      \* the callers of loadEconomicData / loadFoodData

scoringVars == <<fn, data, result>>

dataVars == <<rows, riskMap, countryData>>

runVars == <<crisisType, pc, countries, i, crisisResults, results, loading, progress, requests,
             report>>

forecastVars == <<historicalData, yearsToForecast, forecast, growthRate>>

loaderVars == <<economicDataCache, foodDataCache, fetches, calls>>

vars == <<scoringVars, dataVars, runVars, forecastVars, loaderVars>>

(***************************************************************************)
(* detailedPdfGenerator.ts: DataLoader.loadEconomicData and loadFoodData.  *)
(* A call runs to its first await in one step (the cache test and the      *)
(* request); what follows the awaits is a later step, so the calls of      *)
(* several callers interleave.                                             *)
(***************************************************************************)
NumCallers == 2

MaxLoads == 2

Callers == 1..NumCallers

\* private static economicDataCache: any[] | null = null
NoCache == [set |-> FALSE, id |-> 0, body |-> "none"]

\* an array made while handling request k; return [] is array 0
ArrayOf(k) == [id |-> k]

EmptyList == ArrayOf(0)

NoCall == [pc |-> "ready", dataset |-> "none", fetchId |-> 0, loads |-> 0,
           sawCache |-> NoCache, returned |-> ArrayOf(0 - 1)]

\* what the economic request answers with: response.ok is not looked at,
\* and Papa.parse parses whatever text arrives
EconomicBodies == {"dataset", "errorPage"}

LoaderIdle ==
    /\ economicDataCache = NoCache
    /\ foodDataCache = NoCache
    /\ fetches = <<>>
    /\ calls = <<>>

LoaderInit ==
    /\ economicDataCache = NoCache
    /\ foodDataCache = NoCache
    /\ fetches = <<>>
    /\ calls = [c \in Callers |-> NoCall]

\* if (cache) return cache; otherwise the request goes out and the call
\* waits at: const response = await fetch(...)
LoadStart(c, dataset, cache) ==
    /\ calls[c].pc # "fetching"
    /\ calls[c].loads < MaxLoads
    /\ IF cache.set
       THEN /\ calls' = [calls EXCEPT ![c] =
                           [pc |-> "returned", dataset |-> dataset, fetchId |-> 0,
                            loads |-> @.loads + 1, sawCache |-> cache,
                            returned |-> ArrayOf(cache.id)]]
            /\ UNCHANGED fetches
       ELSE /\ fetches' = Append(fetches, [dataset |-> dataset, status |-> "pending"])
            /\ calls' = [calls EXCEPT ![c] =
                           [pc |-> "fetching", dataset |-> dataset,
                            fetchId |-> Len(fetches) + 1, loads |-> @.loads + 1,
                            sawCache |-> cache, returned |-> ArrayOf(0 - 1)]]

\* the call of c ends with the array built from its request
LoadEnd(c, status, array) ==
    /\ fetches' = [fetches EXCEPT ![calls[c].fetchId].status = status]
    /\ calls' = [calls EXCEPT ![c].pc = "returned", ![c].returned = array]

CallLoadEconomicData(c) ==
    /\ LoadStart(c, "economic", economicDataCache)
    /\ UNCHANGED <<economicDataCache, foodDataCache, scoringVars, dataVars, runVars,
                   forecastVars>>

\* complete: (results) => { this.economicDataCache = results.data; resolve(results.data) }
EconomicParseComplete(c) ==
    /\ calls[c].pc = "fetching" /\ calls[c].dataset = "economic"
    /\ \E body \in EconomicBodies :
         economicDataCache' = [set |-> TRUE, id |-> calls[c].fetchId, body |-> body]
    /\ LoadEnd(c, "ok", ArrayOf(calls[c].fetchId))
    /\ UNCHANGED <<foodDataCache, scoringVars, dataVars, runVars, forecastVars>>

\* fetch or response.text() rejects: catch (error) { ...; return [] }
LoadEconomicDataThrows(c) ==
    /\ calls[c].pc = "fetching" /\ calls[c].dataset = "economic"
    /\ LoadEnd(c, "failed", EmptyList)
    /\ UNCHANGED <<economicDataCache, foodDataCache, scoringVars, dataVars, runVars,
                   forecastVars>>

CallLoadFoodData(c) ==
    /\ LoadStart(c, "food", foodDataCache)
    /\ UNCHANGED <<economicDataCache, foodDataCache, scoringVars, dataVars, runVars,
                   forecastVars>>

\* this.foodDataCache = data.map(...); return this.foodDataCache
FoodDataMapped(c) ==
    /\ calls[c].pc = "fetching" /\ calls[c].dataset = "food"
    /\ foodDataCache' = [set |-> TRUE, id |-> calls[c].fetchId, body |-> "dataset"]
    /\ LoadEnd(c, "ok", ArrayOf(calls[c].fetchId))
    /\ UNCHANGED <<economicDataCache, scoringVars, dataVars, runVars, forecastVars>>

\* fetch, response.arrayBuffer() or XLSX.read throws: catch (error) { ...; return [] }
LoadFoodDataThrows(c) ==
    /\ calls[c].pc = "fetching" /\ calls[c].dataset = "food"
    /\ LoadEnd(c, "failed", EmptyList)
    /\ UNCHANGED <<economicDataCache, foodDataCache, scoringVars, dataVars, runVars,
                   forecastVars>>

(***************************************************************************)
(* JavaScript values and the operators the code applies to them            *)
(***************************************************************************)
Fx(n) == 2 * n

Num(n) == [t |-> "number", v |-> n]

Undefined == [t |-> "undefined", v |-> 0]

NaN == [t |-> "NaN", v |-> 0]

IsNumber(x) == x.t = "number"

\* x !== undefined
Defined(x) == x.t # "undefined"

\* isNaN(x): true of NaN and of undefined (ToNumber(undefined) is NaN)
isNaN(x) == x.t # "number"

\* a < b and a > b: false as soon as one side is undefined or NaN
Lt(a, b) == IsNumber(a) /\ IsNumber(b) /\ a.v < b.v

Gt(a, b) == IsNumber(a) /\ IsNumber(b) /\ a.v > b.v

\* a - b: NaN as soon as one side is undefined or NaN
Sub(a, b) == IF IsNumber(a) /\ IsNumber(b) THEN Num(a.v - b.v) ELSE NaN

\* the value passed through with its sign
MathAbsSigned(a) == a

\* Math.abs(a)
MathAbs(a) == IF IsNumber(a) THEN Num(IF a.v < 0 THEN 0 - a.v ELSE a.v) ELSE NaN

\* Math.min(a, b) on integers
MathMin(a, b) == IF a < b THEN a ELSE b

\* an exact fraction num/den (den > 0), for crisisScore / 6 * 100
Frac(n, d) == [num |-> n, den |-> d]

FracLt(p, q) == p.num * q.den < q.num * p.den

FracEq(p, q) == p.num * q.den = q.num * p.den

\* Math.min(100, p) on a fraction
FracMin100(p) == IF FracLt(Frac(100, 1), p) THEN Frac(100, 1) ELSE p

RECURSIVE SumSeq(_)
SumSeq(s) == IF s = <<>> THEN 0 ELSE Head(s) + SumSeq(Tail(s))

(***************************************************************************)
(* Array.prototype.sort((a, b) => b.impact - a.impact): a stable sort,     *)
(* descending by impact.  InsertByImpact puts x behind every element that  *)
(* does not compare lower, so equal impacts keep their array order.        *)
(***************************************************************************)
\* a sort that puts an element before its equals: ties come out reversed
RECURSIVE InsertByImpactUnstable(_, _)
InsertByImpactUnstable(x, s) ==
    IF s = <<>> THEN <<x>>
    ELSE IF Head(s).impact.v > x.impact.v
         THEN <<Head(s)>> \o InsertByImpactUnstable(x, Tail(s))
         ELSE <<x>> \o s

RECURSIVE InsertByImpact(_, _)
InsertByImpact(x, s) ==
    IF s = <<>> THEN <<x>>
    ELSE IF Head(s).impact.v >= x.impact.v
         THEN <<Head(s)>> \o InsertByImpact(x, Tail(s))
         ELSE <<x>> \o s

RECURSIVE SortByImpactDesc(_)
SortByImpactDesc(s) ==
    IF s = <<>> THEN <<>>
    ELSE InsertByImpact(s[Len(s)], SortByImpactDesc(SubSeq(s, 1, Len(s) - 1)))

\* Array.prototype.slice(0, n)
Slice0(s, n) == SubSeq(s, 1, MathMin(n, Len(s)))

(***************************************************************************)
(* riskCalculator.ts: calculateRiskScore                                   *)
(* Each block of the function is a step: `counted` is its guard (the       *)
(* factorCount++), `add` what it adds to riskScore.                        *)
(***************************************************************************)
NeutralScore == 50

MaxScore == 100

GdpGrowthRisk(d) ==
    IF Lt(d.gdpGrowth, Num(Fx(-3))) THEN 30
    ELSE IF Lt(d.gdpGrowth, Num(Fx(0))) THEN 15
    ELSE IF Lt(d.gdpGrowth, Num(Fx(2))) THEN 10
    ELSE 0

InflationRisk(d) ==
    IF Gt(d.inflation, Num(Fx(20))) THEN 25
    ELSE IF Gt(d.inflation, Num(Fx(10))) THEN 15
    ELSE IF Gt(d.inflation, Num(Fx(5))) THEN 5
    ELSE 0

UnemploymentRisk(d) ==
    IF Gt(d.unemployment, Num(Fx(20))) THEN 20
    ELSE IF Gt(d.unemployment, Num(Fx(10))) THEN 10
    ELSE IF Gt(d.unemployment, Num(Fx(7))) THEN 5
    ELSE 0

FoodProductionRisk(d) ==
    IF Lt(d.foodProductionIndex, Num(Fx(80))) THEN 20
    ELSE IF Lt(d.foodProductionIndex, Num(Fx(90))) THEN 10
    ELSE IF Lt(d.foodProductionIndex, Num(Fx(95))) THEN 5
    ELSE 0

FoodImportsRisk(d) ==
    IF Gt(d.foodImports, Num(Fx(25))) THEN 10
    ELSE IF Gt(d.foodImports, Num(Fx(15))) THEN 5
    ELSE 0

\* the guard of the population-pressure block
PopulationPressureCounted(d) ==
    Defined(d.populationGrowth) /\ ~isNaN(d.populationGrowth)
    /\ Defined(d.foodProductionIndex)

PopulationPressureRisk(d) ==
    IF Gt(d.populationGrowth, Num(Fx(2))) /\ Lt(d.foodProductionIndex, Num(Fx(100)))
    THEN 15
    ELSE IF Gt(d.populationGrowth, Num(Fx(3))) THEN 5
    ELSE 0

\* field !== undefined && !isNaN(field)
Usable(x) == Defined(x) /\ ~isNaN(x)

RiskSteps(d) ==
    << [name |-> "gdpGrowth", counted |-> Usable(d.gdpGrowth),
        add |-> GdpGrowthRisk(d)],
       [name |-> "inflation", counted |-> Usable(d.inflation),
        add |-> InflationRisk(d)],
       [name |-> "unemployment", counted |-> Usable(d.unemployment),
        add |-> UnemploymentRisk(d)],
       [name |-> "foodProductionIndex", counted |-> Usable(d.foodProductionIndex),
        add |-> FoodProductionRisk(d)],
       [name |-> "foodImports", counted |-> Usable(d.foodImports),
        add |-> FoodImportsRisk(d)],
       [name |-> "populationPressure", counted |-> PopulationPressureCounted(d),
        add |-> PopulationPressureRisk(d)] >>

\* the steps whose guard held, in order
CountedSteps(steps) == SelectSeq(steps, LAMBDA s : s.counted)

\* the additions made to riskScore, in order: [name, weight]
FiredOf(steps) ==
    LET f == SelectSeq(CountedSteps(steps), LAMBDA s : s.add > 0)
    IN [k \in 1..Len(f) |-> [name |-> f[k].name, weight |-> f[k].add]]

RiskScoreOf(steps) == SumSeq([k \in 1..Len(FiredOf(steps)) |-> FiredOf(steps)[k].weight])

\* calculateRiskScore without the Math.min(100, ...)
calculateRiskScoreUnclamped(d) ==
    LET steps == RiskSteps(d)
        factorCount == Len(CountedSteps(steps))
        riskScore == RiskScoreOf(steps)
    IN [score |-> IF factorCount > 0 THEN riskScore ELSE NeutralScore,
        fired |-> FiredOf(steps)]

calculateRiskScore(d) ==
    LET steps == RiskSteps(d)
        factorCount == Len(CountedSteps(steps))
        riskScore == RiskScoreOf(steps)
    IN [score |-> IF factorCount > 0 THEN MathMin(MaxScore, riskScore) ELSE NeutralScore,
        fired |-> FiredOf(steps)]

(***************************************************************************)
(* detailedPdfGenerator.ts: calculateOverallRiskScore(data), on            *)
(* latest = data.latestData                                                *)
(***************************************************************************)
OverallGdpGrowthRisk(latest) ==
    IF Lt(latest.gdpGrowth, Num(Fx(0))) THEN 30
    ELSE IF Lt(latest.gdpGrowth, Num(Fx(2))) THEN 15
    ELSE 0

OverallInflationRisk(latest) ==
    IF Gt(latest.inflation, Num(Fx(10))) THEN 25
    ELSE IF Gt(latest.inflation, Num(Fx(5))) THEN 10
    ELSE 0

OverallUnemploymentRisk(latest) ==
    IF Gt(latest.unemployment, Num(Fx(15))) THEN 20
    ELSE IF Gt(latest.unemployment, Num(Fx(7))) THEN 10
    ELSE 0

OverallFoodProductionRisk(latest) ==
    IF Lt(latest.foodProductionIndex, Num(Fx(80))) THEN 20
    ELSE IF Lt(latest.foodProductionIndex, Num(Fx(95))) THEN 10
    ELSE 0

OverallFoodImportsRisk(latest) ==
    IF Gt(latest.foodImports, Num(Fx(20))) THEN 10 ELSE 0

OverallRiskSteps(latest) ==
    << [name |-> "gdpGrowth", counted |-> Defined(latest.gdpGrowth),
        add |-> OverallGdpGrowthRisk(latest)],
       [name |-> "inflation", counted |-> Defined(latest.inflation),
        add |-> OverallInflationRisk(latest)],
       [name |-> "unemployment", counted |-> Defined(latest.unemployment),
        add |-> OverallUnemploymentRisk(latest)],
       [name |-> "foodProductionIndex", counted |-> Defined(latest.foodProductionIndex),
        add |-> OverallFoodProductionRisk(latest)],
       [name |-> "foodImports", counted |-> Defined(latest.foodImports),
        add |-> OverallFoodImportsRisk(latest)] >>

calculateOverallRiskScore(latest) ==
    LET steps == OverallRiskSteps(latest)
        factors == Len(CountedSteps(steps))
        riskScore == RiskScoreOf(steps)
    IN [score |-> MathMin(MaxScore, IF factors > 0 THEN riskScore ELSE NeutralScore),
        fired |-> FiredOf(steps)]

(***************************************************************************)
(* crisisAnalysis.ts (rule-based): analyzeEconomicCrisis, analyzeFoodCrisis*)
(* A rule is [fires, name, value, impact]; the rules that fire are pushed  *)
(* to contributingFactors in declaration order and crisisScore++.          *)
(***************************************************************************)
TopK == 3

EconomicRuleCount == 6

FoodRuleCount == 7

\* the trade gap with a missing exports read as 0
TradeGapExportsDefaultZero(indicators) ==
    Sub(indicators.imports,
        IF Defined(indicators.exports) THEN indicators.exports ELSE Num(0))

\* const tradeGap = indicators.imports - indicators.exports
TradeGap(indicators) == Sub(indicators.imports, indicators.exports)

EconomicRules(indicators) ==
    << [fires |-> Lt(indicators.gdpGrowth, Num(Fx(0))),
        name |-> "GDP Growth (Contraction)",
        value |-> indicators.gdpGrowth,
        impact |-> MathAbs(indicators.gdpGrowth)],
       [fires |-> Gt(indicators.inflation, Num(Fx(20))),
        name |-> "Inflation Rate (High)",
        value |-> indicators.inflation,
        impact |-> Sub(indicators.inflation, Num(Fx(20)))],
       [fires |-> Gt(indicators.unemployment, Num(Fx(10))),
        name |-> "Unemployment Rate (High)",
        value |-> indicators.unemployment,
        impact |-> Sub(indicators.unemployment, Num(Fx(10)))],
       [fires |-> Gt(indicators.domesticCredit, Num(Fx(100))),
        name |-> "Domestic Credit (Excessive)",
        value |-> indicators.domesticCredit,
        impact |-> Sub(indicators.domesticCredit, Num(Fx(100)))],
       [fires |-> Lt(indicators.exports, Num(Fx(15))),
        name |-> "Exports (Weak)",
        value |-> indicators.exports,
        impact |-> Sub(Num(Fx(15)), indicators.exports)],
       [fires |-> Gt(TradeGap(indicators), Num(Fx(20))),
        name |-> "Trade Balance (Deficit)",
        value |-> TradeGap(indicators),
        impact |-> Sub(TradeGap(indicators), Num(Fx(20)))] >>

FoodRules(indicators) ==
    << [fires |-> Lt(indicators.cerealYield, Num(Fx(1000))),
        name |-> "Cereal Yield (Low)",
        value |-> indicators.cerealYield,
        impact |-> Sub(Num(Fx(1000)), indicators.cerealYield)],
       [fires |-> Gt(indicators.foodImports, Num(Fx(15))),
        name |-> "Food Imports (High Dependency)",
        value |-> indicators.foodImports,
        impact |-> Sub(indicators.foodImports, Num(Fx(15)))],
       [fires |-> Lt(indicators.foodProductionIndex, Num(Fx(100))),
        name |-> "Food Production Index (Low)",
        value |-> indicators.foodProductionIndex,
        impact |-> Sub(Num(Fx(100)), indicators.foodProductionIndex)],
       [fires |-> Lt(indicators.gdpGrowth, Num(Fx(2))),
        name |-> "GDP Growth (Low)",
        value |-> indicators.gdpGrowth,
        impact |-> Sub(Num(Fx(2)), indicators.gdpGrowth)],
       [fires |-> Lt(indicators.gdpPerCapita, Num(Fx(784))),
        name |-> "GDP Per Capita (Below Poverty Line)",
        value |-> indicators.gdpPerCapita,
        impact |-> Sub(Num(Fx(784)), indicators.gdpPerCapita)],
       [fires |-> Gt(indicators.inflation, Num(Fx(10))),
        name |-> "Inflation Rate (High)",
        value |-> indicators.inflation,
        impact |-> Sub(indicators.inflation, Num(Fx(10)))],
       \* 2.5 is 5 halves
       [fires |-> Gt(indicators.populationGrowth, Num(5)),
        name |-> "Population Growth (High Pressure)",
        value |-> indicators.populationGrowth,
        impact |-> Sub(indicators.populationGrowth, Num(5))] >>

\* the contributingFactors array as pushed: the rules that fired, in order
ContributingFactors(rules) ==
    LET f == SelectSeq(rules, LAMBDA r : r.fires)
    IN [k \in 1..Len(f) |->
          [name |-> f[k].name, value |-> f[k].value, impact |-> f[k].impact]]

\* contributingFactors.sort((a, b) => b.impact - a.impact).slice(0, 3)
TopIndicators(contributingFactors) ==
    Slice0(SortByImpactDesc(contributingFactors), TopK)

\* Math.min(100, (crisisScore / n) * 100)
Probability(crisisScore, n) == FracMin100(Frac(crisisScore * 100, n))

EconomicRiskLevel(crisisScore) ==
    IF crisisScore >= 4 THEN "Severe"
    ELSE IF crisisScore >= 2 THEN "Moderate"
    ELSE IF crisisScore = 1 THEN "Low"
    ELSE "None"

FoodRiskLevel(crisisCount) ==
    IF crisisCount >= 5 THEN "Severe"
    ELSE IF crisisCount >= 3 THEN "Moderate"
    ELSE IF crisisCount >= 1 THEN "Low"
    ELSE "None"

analyzeEconomicCrisis(indicators) ==
    LET contributingFactors == ContributingFactors(EconomicRules(indicators))
        crisisScore == Len(contributingFactors)
    IN [probability |-> Probability(crisisScore, EconomicRuleCount),
        riskLevel |-> EconomicRiskLevel(crisisScore),
        topIndicators |-> TopIndicators(contributingFactors),
        fired |-> contributingFactors]

analyzeFoodCrisis(indicators) ==
    LET contributingFactors == ContributingFactors(FoodRules(indicators))
        crisisCount == Len(contributingFactors)
    IN [probability |-> Probability(crisisCount, FoodRuleCount),
        riskLevel |-> FoodRiskLevel(crisisCount),
        topIndicators |-> TopIndicators(contributingFactors),
        fired |-> contributingFactors]

(***************************************************************************)
(* Classification of a score into bands, at each place that does it: a     *)
(* score gets the first band whose test it passes, from the highest down.  *)
(***************************************************************************)
\* detailedPdfGenerator.ts, generateCoverPage:
\* riskScore > 70 ? 'HIGH' : riskScore > 40 ? 'MEDIUM' : 'LOW'
CoverRiskLevel(riskScore) ==
    IF riskScore > 70 THEN "HIGH"
    ELSE IF riskScore > 40 THEN "MEDIUM"
    ELSE "LOW"

\* WorldMap.tsx, getRiskLabel
getRiskLabel(risk) ==
    IF risk >= 70 THEN "High Risk"
    ELSE IF risk >= 50 THEN "Medium-High Risk"
    ELSE IF risk >= 30 THEN "Medium Risk"
    ELSE IF risk >= 10 THEN "Low-Medium Risk"
    ELSE "Low Risk"

\* pdfGenerator.ts, generateCrisisReport: the colour of the risk level box,
\* named as the report's statistics name the bands
ReportRiskBand(probability) ==
    IF probability > 80 THEN "Critical"
    ELSE IF probability > 65 THEN "High"
    ELSE "Moderate"

\* the bands of each classifier, lowest first
BandsOf(site) ==
    CASE site = "generateCoverPage" -> <<"LOW", "MEDIUM", "HIGH">>
      [] site = "getRiskLabel" -> <<"Low Risk", "Low-Medium Risk", "Medium Risk",
                                    "Medium-High Risk", "High Risk">>
      [] site = "generateCrisisReport" -> <<"Moderate", "High", "Critical">>

ClassifySites == {"generateCoverPage", "getRiskLabel", "generateCrisisReport"}

Classify(site, score) ==
    CASE site = "generateCoverPage" -> CoverRiskLevel(score)
      [] site = "getRiskLabel" -> getRiskLabel(score)
      [] site = "generateCrisisReport" -> ReportRiskBand(score)

(***************************************************************************)
(* Records the scoring functions are applied to.  Every field is either    *)
(* undefined (absent) or a finite number; the numbers sit on and around    *)
(* the thresholds of the function that reads the field.                    *)
(***************************************************************************)
Vals(S) == {Undefined} \cup {Num(x) : x \in S}

RiskInputs ==
    [gdpGrowth : Vals({Fx(-4), Fx(-3), Fx(-1), Fx(1), Fx(2)}),
     inflation : Vals({Fx(5), Fx(6), Fx(11), Fx(20), Fx(21), Fx(22)}),
     unemployment : Vals({Fx(7), Fx(8), Fx(11), Fx(18), Fx(21)}),
     foodProductionIndex : Vals({Fx(79), Fx(85), Fx(92), Fx(95), Fx(100)}),
     foodImports : Vals({Fx(15), Fx(16), Fx(26)}),
     populationGrowth : Vals({Fx(2), 5, Fx(3), Fx(4)})]

OverallRiskInputs ==
    [gdpGrowth : Vals({Fx(-1), Fx(0), Fx(1), Fx(2)}),
     inflation : Vals({Fx(5), Fx(6), Fx(10), Fx(11)}),
     unemployment : Vals({Fx(7), Fx(8), Fx(15), Fx(16)}),
     foodProductionIndex : Vals({Fx(79), Fx(80), Fx(94), Fx(95)}),
     foodImports : Vals({Fx(20), Fx(21)})]

EconomicInputs ==
    [gdpGrowth : Vals({Fx(-4), Fx(-2), Fx(-1), Fx(0), Fx(1)}),
     inflation : Vals({Fx(20), Fx(21), Fx(22)}),
     unemployment : Vals({Fx(10), Fx(11), Fx(12), Fx(18)}),
     domesticCredit : Vals({Fx(100), Fx(101), Fx(102)}),
     exports : Vals({Fx(13), Fx(14), Fx(15), Fx(40)}),
     imports : Vals({Fx(30), Fx(36), Fx(62)})]

FoodInputs ==
    [cerealYield : Vals({Fx(998), Fx(999), Fx(1000)}),
     foodImports : Vals({Fx(15), Fx(16), Fx(17)}),
     foodProductionIndex : Vals({Fx(98), Fx(99), Fx(100)}),
     gdpGrowth : Vals({Fx(0), Fx(1), Fx(2)}),
     gdpPerCapita : Vals({Fx(783), Fx(784)}),
     inflation : Vals({Fx(10), Fx(11), Fx(12)}),
     populationGrowth : Vals({5, Fx(3), 7, 9})]

\* no call made yet
NoResult == [score |-> 0 - 1, fired |-> <<>>]

ScoringInit ==
    /\ fn \in {"calculateRiskScore", "calculateOverallRiskScore",
               "analyzeEconomicCrisis", "analyzeFoodCrisis"}
    /\ data \in CASE fn = "calculateRiskScore" -> RiskInputs
                  [] fn = "calculateOverallRiskScore" -> OverallRiskInputs
                  [] fn = "analyzeEconomicCrisis" -> EconomicInputs
                  [] OTHER -> FoodInputs
    /\ result = NoResult

\* the scoring variables of a specification that calls no scoring function
ScoringIdle ==
    /\ fn = "none"
    /\ data = [gdpGrowth |-> Undefined]
    /\ result = NoResult

CallCalculateRiskScore ==
    /\ fn = "calculateRiskScore" /\ result = NoResult
    /\ result' = calculateRiskScore(data)
    /\ UNCHANGED <<fn, data, dataVars, runVars, forecastVars, loaderVars>>

CallCalculateOverallRiskScore ==
    /\ fn = "calculateOverallRiskScore" /\ result = NoResult
    /\ result' = calculateOverallRiskScore(data)
    /\ UNCHANGED <<fn, data, dataVars, runVars, forecastVars, loaderVars>>

CallAnalyzeEconomicCrisis ==
    /\ fn = "analyzeEconomicCrisis" /\ result = NoResult
    /\ result' = analyzeEconomicCrisis(data)
    /\ UNCHANGED <<fn, data, dataVars, runVars, forecastVars, loaderVars>>

CallAnalyzeFoodCrisis ==
    /\ fn = "analyzeFoodCrisis" /\ result = NoResult
    /\ result' = analyzeFoodCrisis(data)
    /\ UNCHANGED <<fn, data, dataVars, runVars, forecastVars, loaderVars>>

Returned == result # NoResult

\* one classification of one clamped score at one place
ClassifyInit ==
    /\ fn \in ClassifySites
    /\ data \in [score : 0..MaxScore]
    /\ result = NoResult

CallGenerateCoverPage ==
    /\ fn = "generateCoverPage" /\ result = NoResult
    /\ result' = [score |-> data.score, band |-> CoverRiskLevel(data.score)]
    /\ UNCHANGED <<fn, data, dataVars, runVars, forecastVars, loaderVars>>

CallGetRiskLabel ==
    /\ fn = "getRiskLabel" /\ result = NoResult
    /\ result' = [score |-> data.score, band |-> getRiskLabel(data.score)]
    /\ UNCHANGED <<fn, data, dataVars, runVars, forecastVars, loaderVars>>

CallGenerateCrisisReportBand ==
    /\ fn = "generateCrisisReport" /\ result = NoResult
    /\ result' = [score |-> data.score, band |-> ReportRiskBand(data.score)]
    /\ UNCHANGED <<fn, data, dataVars, runVars, forecastVars, loaderVars>>

(***************************************************************************)
(* The merged dataset (DataLoader.getCombinedData): one row per economic   *)
(* row, in file order.  A country is the integer of its rank in            *)
(* alphabetical order, so that getCountries' sort() is the numeric order.  *)
(***************************************************************************)
MaxRows == 2

NumCountries == 2

NumYears == 2

FirstYear == 2020

CountryNames == 1..NumCountries

Years == FirstYear..(FirstYear + NumYears - 1)

\* row[f], undefined when the row has no property f
Get(row, f) == IF f \in DOMAIN row THEN row[f] ELSE Undefined

\* the indicator values a row can carry: nothing, benign values with a
\* present 0, and a stressed economy with exports and cerealYield missing
RowProfiles ==
    { [domesticCredit |-> Undefined, exports |-> Undefined, gdpGrowth |-> Undefined,
       gdpPerCapita |-> Undefined, grossCapital |-> Undefined, imports |-> Undefined,
       inflation |-> Undefined, unemployment |-> Undefined, cerealYield |-> Undefined,
       foodImports |-> Undefined, foodProductionIndex |-> Undefined,
       populationGrowth |-> Undefined],
      [domesticCredit |-> Num(Fx(50)), exports |-> Num(Fx(30)), gdpGrowth |-> Num(Fx(3)),
       gdpPerCapita |-> Num(Fx(9000)), grossCapital |-> Num(Fx(25)),
       imports |-> Num(Fx(30)), inflation |-> Num(Fx(0)), unemployment |-> Num(Fx(5)),
       cerealYield |-> Num(Fx(3000)), foodImports |-> Num(Fx(8)),
       foodProductionIndex |-> Num(Fx(105)), populationGrowth |-> Num(Fx(1))],
      [domesticCredit |-> Num(Fx(120)), exports |-> Undefined, gdpGrowth |-> Num(Fx(-4)),
       gdpPerCapita |-> Num(Fx(700)), grossCapital |-> Num(Fx(10)),
       imports |-> Num(Fx(45)), inflation |-> Num(Fx(22)), unemployment |-> Num(Fx(18)),
       cerealYield |-> Undefined, foodImports |-> Num(Fx(26)),
       foodProductionIndex |-> Num(Fx(79)), populationGrowth |-> Num(Fx(4))] }

Row(c, y, p) == [countryName |-> c, year |-> y] @@ p

AllRows == {Row(c, y, p) : c \in CountryNames, y \in Years, p \in RowProfiles}

Datasets == UNION {[1..n -> AllRows] : n \in 0..MaxRows}

\* Math.max(...xs) over a non-empty set of years
MathMaxOf(S) == CHOOSE m \in S : \A x \in S : x <= m

RowsOf(dataRows, countryName) ==
    SelectSeq(dataRows, LAMBDA row : row.countryName = countryName)

YearsIn(dataRows) == {dataRows[k].year : k \in 1..Len(dataRows)}

(***************************************************************************)
(* riskCalculator.ts: calculateCountryRisks                                *)
(***************************************************************************)
\* dataRows.filter(d => d.year === latestYear); Math.max() of no year is
\* -Infinity, which no row's year equals
LatestYearRows(dataRows) ==
    IF dataRows = <<>> THEN <<>>
    ELSE LET latestYear == MathMaxOf(YearsIn(dataRows))
         IN SelectSeq(dataRows, LAMBDA d : d.year = latestYear)

\* the argument calculateCountryRisks builds for calculateRiskScore
RiskDataOf(row) ==
    [gdpGrowth |-> Get(row, "gdpGrowth"),
     inflation |-> Get(row, "inflation"),
     unemployment |-> Get(row, "unemployment"),
     foodProductionIndex |-> Get(row, "foodProductionIndex"),
     foodImports |-> Get(row, "foodImports"),
     populationGrowth |-> Get(row, "populationGrowth")]

\* latestData.forEach(row => riskMap[row.countryName] = risk): a later row of
\* the same country overwrites an earlier one
RECURSIVE FillRiskMap(_, _)
FillRiskMap(riskMap0, latestData) ==
    IF latestData = <<>> THEN riskMap0
    ELSE LET row == Head(latestData)
             risk == calculateRiskScore(RiskDataOf(row)).score
             keys == DOMAIN riskMap0 \cup {row.countryName}
         IN FillRiskMap([c \in keys |-> IF c = row.countryName THEN risk ELSE riskMap0[c]],
                        Tail(latestData))

EmptyMap == [c \in {} |-> 0]

calculateCountryRisks(dataRows) == FillRiskMap(EmptyMap, LatestYearRows(dataRows))

(***************************************************************************)
(* dataLoader.ts: DataLoader.getCountries, DataLoader.getCountryData       *)
(***************************************************************************)
Null == [countryName |-> 0]

\* [...new Set(names)].filter(Boolean).sort(), as the ascending sequence
RECURSIVE SortedSeqOf(_)
SortedSeqOf(S) ==
    IF S = {} THEN <<>>
    ELSE LET m == CHOOSE x \in S : \A y \in S : x <= y
         IN <<m>> \o SortedSeqOf(S \ {m})

getCountries(dataRows) ==
    SortedSeqOf({dataRows[k].countryName : k \in 1..Len(dataRows)})

\* const latestData = countryData[countryData.length - 1]
LatestData(countryRows) == countryRows[Len(countryRows)]

getCountryData(dataRows, countryName) ==
    LET countryRows == RowsOf(dataRows, countryName)
    IN IF Len(countryRows) = 0 THEN Null
       ELSE [countryName |-> countryName,
             latestData |-> LatestData(countryRows),
             historicalIndicators |-> countryRows]

\* not called yet
NotCalled == [countryName |-> 0 - 1]

\* calculateCountryRisks not called yet; after the call, scores is the map
NoRiskMap == [called |-> FALSE, scores |-> EmptyMap]

DataInit ==
    /\ rows \in Datasets
    /\ riskMap = NoRiskMap
    /\ countryData = NotCalled
    /\ LoaderIdle

CallCalculateCountryRisks ==
    /\ riskMap = NoRiskMap /\ countryData = NotCalled
    /\ riskMap' = [called |-> TRUE, scores |-> calculateCountryRisks(rows)]
    /\ UNCHANGED <<rows, countryData, scoringVars, runVars, forecastVars, loaderVars>>

CallGetCountryData ==
    /\ riskMap = NoRiskMap /\ countryData = NotCalled
    /\ \E countryName \in CountryNames :
         countryData' = getCountryData(rows, countryName)
    /\ UNCHANGED <<rows, riskMap, scoringVars, runVars, forecastVars, loaderVars>>

(***************************************************************************)
(* crisisAnalysis.ts (backend version): analyzeEconomicCrisis and          *)
(* analyzeFoodCrisis validate the input, post it to the backend and        *)
(* return the backend's JSON, or an error result.  The backend is          *)
(* external: its answer is an input of the model.                          *)
(***************************************************************************)
\* a ?? b
Nullish(a, b) == IF Defined(a) THEN a ELSE b

\* Number.isFinite(x)
NumberIsFinite(x) == IsNumber(x)

EconomicInputFields ==
    {"gdpGrowth", "inflation", "unemployment", "domesticCredit", "exports",
     "imports", "gdpPerCapita", "grossFixedCapital"}

FoodInputFields ==
    {"cerealYield", "foodImports", "foodProductionIndex", "gdpGrowth",
     "gdpPerCapita", "inflation", "populationGrowth", "gdpCurrent"}

\* the optional lag fields of the version that sends lag features
LagFields == {"gdpGrowthLag", "inflationLag"}

LagEconomicInputFields ==
    {"gdpGrowth", "inflation", "unemployment", "domesticCredit", "exports", "imports"}
    \cup LagFields

\* validateEconomicInput / validateFoodInput: every required field is finite,
\* and so is every lag field that is provided
ValidInput(input) ==
    \A f \in DOMAIN input :
        IF f \in LagFields
        THEN ~Defined(input[f]) \/ NumberIsFinite(input[f])
        ELSE NumberIsFinite(input[f])

\* what the request can come to: fetch rejects, a non-OK status, a body
\* that response.json() cannot parse, or a result with its probability
BackendOutcomes ==
    {[kind |-> k, probability |-> 0] : k \in {"networkError", "notOk", "invalidJson"}}
    \cup {[kind |-> "ok", probability |-> q] : q \in {40, 50, 60, 80}}

ErrorResult(country, classification) ==
    [country |-> country, probability |-> 0,
     classification |-> classification, topIndicators |-> <<>>]

\* the request sent before the input is looked at
AnalyzeBodyFetchFirst(country, input, outcome) ==
    IF ~ValidInput(input)
    THEN [threw |-> FALSE, requested |-> TRUE,
          value |-> ErrorResult(country, "Error: Invalid input data")]
    ELSE IF outcome.kind # "ok"
    THEN [threw |-> TRUE, requested |-> TRUE, value |-> outcome.kind]
    ELSE [threw |-> FALSE, requested |-> TRUE,
          value |-> [country |-> country, probability |-> outcome.probability,
                     classification |-> "backend", topIndicators |-> <<>>]]

\* the try block: it returns a value or throws; requested tells whether
\* fetch was called
AnalyzeBody(country, input, outcome) ==
    IF ~ValidInput(input)
    THEN [threw |-> FALSE, requested |-> FALSE,
          value |-> ErrorResult(country, "Error: Invalid input data")]
    ELSE IF outcome.kind # "ok"
    THEN [threw |-> TRUE, requested |-> TRUE, value |-> outcome.kind]
    ELSE [threw |-> FALSE, requested |-> TRUE,
          value |-> [country |-> country, probability |-> outcome.probability,
                     classification |-> "backend", topIndicators |-> <<>>]]

\* the function without its catch clause: what is thrown rejects the promise
AnalyzeSettledNoCatch(country, input, outcome) ==
    LET body == AnalyzeBody(country, input, outcome)
    IN IF body.threw
       THEN [state |-> "rejected", requested |-> body.requested, value |-> body.value]
       ELSE [state |-> "fulfilled", requested |-> body.requested, value |-> body.value]

\* try { ... } catch (error) { return { country, probability: 0, ... } }:
\* how the promise returned by analyzeEconomicCrisis / analyzeFoodCrisis settles
AnalyzeSettled(country, input, outcome) ==
    LET body == AnalyzeBody(country, input, outcome)
    IN IF body.threw
       THEN [state |-> "fulfilled", requested |-> body.requested,
             value |-> ErrorResult(country, "Error: Analysis failed")]
       ELSE [state |-> "fulfilled", requested |-> body.requested, value |-> body.value]

\* await analyzeEconomicCrisis(country, input)
AnalyzeViaBackend(country, input, outcome) == AnalyzeSettled(country, input, outcome).value

\* one call of an analysis entry point: any mix of absent, NaN and finite
\* fields, and any outcome of the request
ApiFns == {"api.analyzeEconomicCrisis", "api.analyzeEconomicCrisis.lags", "api.analyzeFoodCrisis"}

ApiInputValues == {Undefined, NaN, Num(Fx(5))}

ApiInputs(f) ==
    IF f = "api.analyzeEconomicCrisis"
    THEN [EconomicInputFields -> ApiInputValues]
    ELSE IF f = "api.analyzeEconomicCrisis.lags"
    THEN [LagEconomicInputFields -> ApiInputValues]
    ELSE [FoodInputFields -> ApiInputValues]

ApiInit ==
    /\ fn \in ApiFns
    /\ data \in [input : ApiInputs(fn), outcome : BackendOutcomes]
    /\ result = NoResult

CallApiAnalyzeEconomicCrisis ==
    /\ fn = "api.analyzeEconomicCrisis" /\ result = NoResult
    /\ result' = AnalyzeSettled(1, data.input, data.outcome)
    /\ UNCHANGED <<fn, data, dataVars, runVars, forecastVars, loaderVars>>

\* crisisAnalysis.ts, the version with the optional lag fields
CallApiAnalyzeEconomicCrisisWithLags ==
    /\ fn = "api.analyzeEconomicCrisis.lags" /\ result = NoResult
    /\ result' = AnalyzeSettled(1, data.input, data.outcome)
    /\ UNCHANGED <<fn, data, dataVars, runVars, forecastVars, loaderVars>>

CallApiAnalyzeFoodCrisis ==
    /\ fn = "api.analyzeFoodCrisis" /\ result = NoResult
    /\ result' = AnalyzeSettled(1, data.input, data.outcome)
    /\ UNCHANGED <<fn, data, dataVars, runVars, forecastVars, loaderVars>>

(***************************************************************************)
(* CrisisAnalyzer.tsx: runAnalysis                                         *)
(***************************************************************************)
HighRiskThreshold == 50

\* the threshold test with the boundary let in
IsHighRiskInclusive(res) == res.probability >= HighRiskThreshold

\* if (result.probability > 50)
IsHighRisk(res) == res.probability > HighRiskThreshold

\* 1e10, the default of gdpCurrent: beyond 32-bit integers, so kept as
\* mantissa and decimal exponent; the model only passes it on
DefaultGdpCurrent == [t |-> "number", v |-> 1, exp10 |-> 10]

\* const economicInput: EconomicInput = { gdpGrowth: latestData.gdpGrowth ?? 0, ... }
BuildEconomicInput(latestData) ==
    [gdpGrowth |-> Nullish(Get(latestData, "gdpGrowth"), Num(0)),
     inflation |-> Nullish(Get(latestData, "inflation"), Num(0)),
     unemployment |-> Nullish(Get(latestData, "unemployment"), Num(0)),
     domesticCredit |-> Nullish(Get(latestData, "domesticCredit"), Num(0)),
     exports |-> Nullish(Get(latestData, "exports"), Num(0)),
     imports |-> Nullish(Get(latestData, "imports"), Num(0)),
     gdpPerCapita |-> Nullish(Get(latestData, "gdpPerCapita"), Num(0)),
     grossFixedCapital |-> Nullish(Get(latestData, "grossFixedCapital"), Num(0))]

\* const foodInput: FoodInput = { cerealYield: latestData.cerealYield ?? 0, ... }
BuildFoodInput(latestData) ==
    [cerealYield |-> Nullish(Get(latestData, "cerealYield"), Num(0)),
     foodImports |-> Nullish(Get(latestData, "foodImports"), Num(0)),
     foodProductionIndex |-> Nullish(Get(latestData, "foodProductionIndex"), Num(0)),
     gdpGrowth |-> Nullish(Get(latestData, "gdpGrowth"), Num(0)),
     gdpPerCapita |-> Nullish(Get(latestData, "gdpPerCapita"), Num(0)),
     inflation |-> Nullish(Get(latestData, "inflation"), Num(0)),
     populationGrowth |-> Nullish(Get(latestData, "populationGrowth"), Num(0)),
     gdpCurrent |-> Nullish(Get(latestData, "gdp"), DefaultGdpCurrent)]

\* the input field that carries a field of the source row
SourceField(f) ==
    CASE f = "grossFixedCapital" -> "grossFixedCapital"
      [] f = "gdpCurrent" -> "gdp"
      [] OTHER -> f

(***************************************************************************)
(* crisisResults.sort((a, b) => b.probability - a.probability): stable,    *)
(* descending by probability                                               *)
(***************************************************************************)
\* a sort that puts a result before its equals: ties come out reversed
RECURSIVE InsertByProbabilityUnstable(_, _)
InsertByProbabilityUnstable(x, s) ==
    IF s = <<>> THEN <<x>>
    ELSE IF Head(s).probability > x.probability
         THEN <<Head(s)>> \o InsertByProbabilityUnstable(x, Tail(s))
         ELSE <<x>> \o s

RECURSIVE InsertByProbability(_, _)
InsertByProbability(x, s) ==
    IF s = <<>> THEN <<x>>
    ELSE IF Head(s).probability >= x.probability
         THEN <<Head(s)>> \o InsertByProbability(x, Tail(s))
         ELSE <<x>> \o s

RECURSIVE SortByProbabilityDesc(_)
SortByProbabilityDesc(s) ==
    IF s = <<>> THEN <<>>
    ELSE InsertByProbability(s[Len(s)], SortByProbabilityDesc(SubSeq(s, 1, Len(s) - 1)))

\* generateCrisisReport not called
NoReport == [generated |-> FALSE, received |-> <<>>, sortedResults |-> <<>>, top5 |-> <<>>]

RunInit ==
    /\ crisisType \in {"economic", "food"}
    /\ pc = "idle"
    /\ countries = <<>>
    /\ i = 0
    /\ crisisResults = <<>>
    /\ results = <<>>
    /\ loading = FALSE
    /\ progress = [current |-> 0, total |-> 0]
    /\ requests = <<>>
    /\ report = NoReport

\* the run variables of a specification in which runAnalysis is not started
RunIdle == RunInit /\ crisisType = "economic"

\* setLoading(true); setProgress({ current: 0, total: 0 })
RunStart ==
    /\ pc = "idle"
    /\ loading' = TRUE
    /\ progress' = [current |-> 0, total |-> 0]
    /\ pc' = "getCountries"
    /\ UNCHANGED <<report, crisisType, countries, i, crisisResults, results, requests,
                   scoringVars, dataVars, forecastVars, loaderVars>>

\* const countries = await DataLoader.getCountries(); setProgress; crisisResults = []
RunGetCountries ==
    /\ pc = "getCountries"
    /\ countries' = getCountries(rows)
    /\ progress' = [current |-> 0, total |-> Len(countries')]
    /\ crisisResults' = <<>>
    /\ i' = 0
    /\ pc' = "loop"
    /\ UNCHANGED <<report, crisisType, results, loading, requests, scoringVars, dataVars, forecastVars,
                   loaderVars>>

\* an exception thrown in the try block before the loop, and the outer
\* catch block, which only shows a toast
RunGetCountriesThrows ==
    /\ pc = "getCountries"
    /\ pc' = "finally"
    /\ UNCHANGED <<report, crisisType, countries, i, crisisResults, results, loading,
                   progress, requests, scoringVars, dataVars, forecastVars, loaderVars>>

\* the loop left at the first country whose analysis fails
AfterIterationAbortOnFailure(idx, res) ==
    IF res.classification # "backend" THEN Len(countries) ELSE idx + 1

\* the loop index after an iteration: the result, failed or not, is only
\* tested against the threshold, and the loop goes on to the next country
AfterIteration(idx, res) == idx + 1

\* one iteration of the for loop, for countries[i] (0-based i)
RunIterate ==
    /\ pc = "loop" /\ i < Len(countries)
    /\ \E outcome \in BackendOutcomes :
         LET country == countries[i + 1]
             found == getCountryData(rows, country)
             input == IF crisisType = "economic"
                      THEN BuildEconomicInput(found.latestData)
                      ELSE BuildFoodInput(found.latestData)
             res == AnalyzeViaBackend(country, input, outcome)
         IN /\ progress' = [current |-> i + 1, total |-> Len(countries)]
            /\ i' = IF found = Null THEN i + 1 ELSE AfterIteration(i, res)
            /\ IF found = Null
               THEN UNCHANGED <<crisisResults, requests>>
               ELSE /\ requests' = Append(requests,
                          [country |-> country, latestData |-> found.latestData,
                           input |-> input, probability |-> res.probability,
                           classification |-> res.classification])
                    /\ crisisResults' =
                          IF IsHighRisk(res)
                          THEN Append(crisisResults, res)
                          ELSE crisisResults
    /\ UNCHANGED <<report, crisisType, pc, countries, results, loading, scoringVars, dataVars, forecastVars,
                   loaderVars>>

\* setResults(crisisResults.sort(...)): the sort is in place
RunSetResults ==
    /\ pc = "loop" /\ i >= Len(countries)
    /\ crisisResults' = SortByProbabilityDesc(crisisResults)
    /\ results' = crisisResults'
    /\ pc' = "finally"
    /\ UNCHANGED <<report, crisisType, countries, i, loading, progress, requests,
                   scoringVars, dataVars, forecastVars, loaderVars>>

\* the finally block without setLoading(false)
RunFinallyKeepsLoading ==
    /\ pc = "finally"
    /\ progress' = [current |-> 0, total |-> 0]
    /\ pc' = "done"
    /\ UNCHANGED <<report, crisisType, countries, i, crisisResults, results, requests,
                   loading, scoringVars, dataVars, forecastVars, loaderVars>>

\* finally { setLoading(false); setProgress({ current: 0, total: 0 }) }
RunFinally ==
    /\ pc = "finally"
    /\ loading' = FALSE
    /\ progress' = [current |-> 0, total |-> 0]
    /\ pc' = "done"
    /\ UNCHANGED <<report, crisisType, countries, i, crisisResults, results, requests,
                   scoringVars, dataVars, forecastVars, loaderVars>>

(***************************************************************************)
(* pdfGenerator.ts: generateCrisisReport(results, ...), as far as it       *)
(* touches the array it is given                                           *)
(***************************************************************************)
MaxResults == 2

ReportTopCount == 5

IndicatorLists ==
    {<<>>, <<[name |-> "Inflation", impact |-> 1], [name |-> "GDP Growth", impact |-> 2]>>}

ReportResultValues ==
    [country : CountryNames, probability : {60, 80, 90},
     classification : {"backend"}, topIndicators : IndicatorLists]

ResultLists == UNION {[1..n -> ReportResultValues] : n \in 0..MaxResults}

\* results.sort(...) on the array itself, without the copy
ReportArraysSortedInPlace(received) ==
    [results |-> SortByProbabilityDesc(received),
     sortedResults |-> SortByProbabilityDesc(received)]

\* const sortedResults = [...results].sort((a, b) => b.probability - a.probability):
\* the array given and the sorted copy, after the statement
ReportArrays(received) ==
    [results |-> received, sortedResults |-> SortByProbabilityDesc(received)]

ReportInit ==
    /\ crisisType \in {"economic", "food"}
    /\ pc = "done"
    /\ countries = <<>>
    /\ i = 0
    /\ crisisResults = <<>>
    /\ results \in ResultLists
    /\ loading = FALSE
    /\ progress = [current |-> 0, total |-> 0]
    /\ requests = <<>>
    /\ report = NoReport

CallGenerateCrisisReport ==
    /\ pc = "done" /\ ~report.generated
    /\ LET arrays == ReportArrays(results)
       IN /\ results' = arrays.results
          /\ report' = [generated |-> TRUE, received |-> results,
                        sortedResults |-> arrays.sortedResults,
                        top5 |-> Slice0(arrays.sortedResults, ReportTopCount)]
    /\ UNCHANGED <<crisisType, pc, countries, i, crisisResults, loading, progress,
                   requests, scoringVars, dataVars, forecastVars, loaderVars>>

(***************************************************************************)
(* forecasting.ts: forecastIndicator                                       *)
(* A point is [year, value]; a value counts THOUSANDTHS, so that the       *)
(* two-decimal rounding of the regression library is visible.              *)
(***************************************************************************)
MinHistory == 3

MaxPoints == 3

MaxHorizon == 2

NumHistoryYears == 4

HistoryYears == FirstYear..(FirstYear + NumHistoryYears - 1)

\* values in thousandths: 0.001, 0.002, 0.003 and 10, 12, 14
HistoryValues == {1, 2, 3, 10000, 12000, 14000}

Points == [year : HistoryYears, value : HistoryValues]

Histories == UNION {[1..n -> Points] : n \in 0..MaxPoints}

\* [...historicalData].sort((a, b) => a.year - b.year): stable, ascending
RECURSIVE InsertByYear(_, _)
InsertByYear(x, s) ==
    IF s = <<>> THEN <<x>>
    ELSE IF Head(s).year <= x.year
         THEN <<Head(s)>> \o InsertByYear(x, Tail(s))
         ELSE <<x>> \o s

RECURSIVE SortByYear(_)
SortByYear(s) ==
    IF s = <<>> THEN <<>>
    ELSE InsertByYear(s[Len(s)], SortByYear(SubSeq(s, 1, Len(s) - 1)))

\* x.sort(...) on the array itself: the array given is reordered
SortedInPlace(arr) == [received |-> SortByYear(arr), sorted |-> SortByYear(arr)]

\* [...x].sort((a, b) => a.year - b.year): the array given and the sorted
\* copy, after the statement
SortedCopy(arr) == [received |-> arr, sorted |-> SortByYear(arr)]

\* Math.round(p / q) for q > 0: the nearest integer, a half rounded up
RoundDiv(p, q) == (2 * p + q) \div (2 * q)

\* round(x, 2) of the regression library, options.precision = 2 by default:
\* p / q thousandths rounded to a multiple of 0.01, i.e. of 10 thousandths
Round2(p, q) == 10 * RoundDiv(p, 10 * q)

(***************************************************************************)
(* regression.linear(regressionData) of the regression package, called     *)
(* with its default options: gradient and intercept are each rounded to    *)
(* two decimals, and so is every prediction.                               *)
(***************************************************************************)
RegressionLinear(sortedData) ==
    LET len == Len(sortedData)
        sumX == SumSeq([k \in 1..len |-> sortedData[k].year])
        sumY == SumSeq([k \in 1..len |-> sortedData[k].value])
        sumXX == SumSeq([k \in 1..len |-> sortedData[k].year * sortedData[k].year])
        sumXY == SumSeq([k \in 1..len |-> sortedData[k].year * sortedData[k].value])
        run == len * sumXX - sumX * sumX
        rise == len * sumXY - sumX * sumY
        gradient == IF run = 0 THEN 0 ELSE Round2(rise, run)
        intercept == Round2(sumY - gradient * sumX, len)
    IN [gradient |-> gradient, intercept |-> intercept]

\* result.predict(year)[1]
Predict(fit, year) == Round2(fit.gradient * year + fit.intercept, 1)

\* the length guard off by one: two points pass
InsufficientHistoryOffByOne(history) == Len(history) < MinHistory - 1

\* if (historicalData.length < 3) return []
InsufficientHistory(history) == Len(history) < MinHistory

\* the loop started at i = 0: the last observed year is forecast again
ForecastYearsFromLast(lastYear, horizon) == [k \in 1..horizon |-> lastYear + k - 1]

\* for (let i = 1; i <= yearsToForecast; i++) { const year = lastYear + i; ... }
ForecastYears(lastYear, horizon) == [k \in 1..horizon |-> lastYear + k]

\* nothing returned for a history of a single year
forecastIndicatorNoDegenerate(history, horizon) ==
    IF InsufficientHistory(history) THEN <<>>
    ELSE LET sortedData == SortedCopy(history).sorted
             fit == RegressionLinear(sortedData)
             lastYear == sortedData[Len(sortedData)].year
         IN IF sortedData[1].year = lastYear THEN <<>>
            ELSE [k \in 1..Len(sortedData) |->
                    [year |-> sortedData[k].year, value |-> sortedData[k].value,
                     isHistorical |-> TRUE]]
                 \o [k \in 1..horizon |->
                       [year |-> ForecastYears(lastYear, horizon)[k],
                        value |-> Predict(fit, ForecastYears(lastYear, horizon)[k]),
                        isHistorical |-> FALSE]]

\* the historical values replaced by the fitted ones
forecastIndicatorFitted(history, horizon) ==
    IF InsufficientHistory(history) THEN <<>>
    ELSE LET sortedData == SortByYear(history)
             fit == RegressionLinear(sortedData)
             lastYear == sortedData[Len(sortedData)].year
         IN [k \in 1..Len(sortedData) |->
               [year |-> sortedData[k].year,
                value |-> Predict(fit, sortedData[k].year),
                isHistorical |-> TRUE]]
            \o [k \in 1..horizon |->
                  [year |-> lastYear + k, value |-> Predict(fit, lastYear + k),
                   isHistorical |-> FALSE]]

forecastIndicator(history, horizon) ==
    IF InsufficientHistory(history) THEN <<>>
    ELSE LET sortedData == SortedCopy(history).sorted
             fit == RegressionLinear(sortedData)
             lastYear == sortedData[Len(sortedData)].year
         IN [k \in 1..Len(sortedData) |->
               [year |-> sortedData[k].year, value |-> sortedData[k].value,
                isHistorical |-> TRUE]]
            \o [k \in 1..horizon |->
                  [year |-> ForecastYears(lastYear, horizon)[k],
                   value |-> Predict(fit, ForecastYears(lastYear, horizon)[k]),
                   isHistorical |-> FALSE]]

NoForecast == [called |-> FALSE, points |-> <<>>]

NoGrowthRate == [called |-> FALSE, rate |-> 0]

ForecastInit ==
    /\ historicalData \in Histories
    /\ yearsToForecast \in 0..MaxHorizon
    /\ forecast = NoForecast
    /\ growthRate = NoGrowthRate

\* the forecast variables of a specification that makes no forecast
ForecastIdle ==
    /\ historicalData = <<>>
    /\ yearsToForecast = 0
    /\ forecast = NoForecast
    /\ growthRate = NoGrowthRate

CallForecastIndicator ==
    /\ forecast = NoForecast
    /\ forecast' = [called |-> TRUE,
                    points |-> forecastIndicator(historicalData, yearsToForecast)]
    /\ historicalData' = IF InsufficientHistory(historicalData) THEN historicalData
                         ELSE SortedCopy(historicalData).received
    /\ UNCHANGED <<yearsToForecast, growthRate, scoringVars, dataVars, runVars, loaderVars>>

(***************************************************************************)
(* forecasting.ts: calculateGrowthRate.  Values are whole units here and   *)
(* the rate is in whole percent, rounded down.                             *)
(***************************************************************************)
GrowthValues == {0, 1, 2, 8}

GrowthPoints == [year : HistoryYears, value : GrowthValues]

GrowthSeries == UNION {[1..n -> GrowthPoints] : n \in 0..MaxPoints}

RECURSIVE Pow(_, _)
Pow(b, e) == IF e = 0 THEN 1 ELSE b * Pow(b, e - 1)

\* b^e where that is at most cap, and cap + 1 otherwise
RECURSIVE PowCap(_, _, _)
PowCap(b, e, cap) ==
    IF e = 0 THEN 1
    ELSE IF b = 0 THEN 0
    ELSE LET q == PowCap(b, e - 1, cap)
         IN IF q > cap \div b THEN cap + 1 ELSE q * b

\* (1 + r/100)^years > last / first
RateOver(r, first, last, years) ==
    LET cap == last * Pow(100, years)
    IN PowCap(100 + r, years, cap) > cap \div first

\* (Math.pow(last / first, 1 / years) - 1) * 100, for first > 0 and last >= 0
Cagr(first, last, years) ==
    CHOOSE r \in (-100)..(100 * last) :
        ~RateOver(r, first, last, years) /\ RateOver(r + 1, first, last, years)

\* the first and the last element taken without sorting
calculateGrowthRateUnsorted(series) ==
    IF Len(series) < 2 THEN 0
    ELSE LET first == series[1].value
             last == series[Len(series)].value
             years == series[Len(series)].year - series[1].year
         IN IF first = 0 \/ years = 0 THEN 0 ELSE Cagr(first, last, years)

calculateGrowthRate(series) ==
    IF Len(series) < 2 THEN 0
    ELSE LET sorted == SortedCopy(series).sorted
             first == sorted[1].value
             last == sorted[Len(sorted)].value
             years == sorted[Len(sorted)].year - sorted[1].year
         IN IF first = 0 \/ years = 0 THEN 0 ELSE Cagr(first, last, years)

GrowthInit ==
    /\ historicalData \in GrowthSeries
    /\ yearsToForecast = 0
    /\ forecast = NoForecast
    /\ growthRate = NoGrowthRate

CallCalculateGrowthRate ==
    /\ growthRate = NoGrowthRate
    /\ growthRate' = [called |-> TRUE, rate |-> calculateGrowthRate(historicalData)]
    /\ historicalData' = IF Len(historicalData) < 2 THEN historicalData
                         ELSE SortedCopy(historicalData).received
    /\ UNCHANGED <<yearsToForecast, forecast, scoringVars, dataVars, runVars, loaderVars>>


(***************************************************************************)
(* Specifications                                                          *)
(***************************************************************************)
\* one call of a scoring function on one record
Init ==
    /\ ScoringInit
    /\ rows = <<>> /\ riskMap = NoRiskMap /\ countryData = NotCalled
    /\ LoaderIdle
    /\ RunIdle /\ ForecastIdle

Next ==
    \/ CallCalculateRiskScore
    \/ CallCalculateOverallRiskScore
    \/ CallAnalyzeEconomicCrisis
    \/ CallAnalyzeFoodCrisis

Spec == Init /\ [][Next]_vars

\* one classification of one score
InitClassify ==
    /\ ClassifyInit
    /\ rows = <<>> /\ riskMap = NoRiskMap /\ countryData = NotCalled
    /\ LoaderIdle
    /\ RunIdle /\ ForecastIdle

NextClassify ==
    \/ CallGenerateCoverPage
    \/ CallGetRiskLabel
    \/ CallGenerateCrisisReportBand

SpecClassify == InitClassify /\ [][NextClassify]_vars

\* one call of an analysis entry point of the API client
InitAnalyze ==
    /\ ApiInit
    /\ rows = <<>> /\ riskMap = NoRiskMap /\ countryData = NotCalled
    /\ LoaderIdle
    /\ RunIdle /\ ForecastIdle

NextAnalyze ==
    \/ CallApiAnalyzeEconomicCrisis
    \/ CallApiAnalyzeEconomicCrisisWithLags
    \/ CallApiAnalyzeFoodCrisis

SpecAnalyze == InitAnalyze /\ [][NextAnalyze]_vars

\* one call of calculateCountryRisks or getCountryData on one dataset
InitData == DataInit /\ ScoringIdle /\ RunIdle /\ ForecastIdle

NextData ==
    \/ CallCalculateCountryRisks
    \/ CallGetCountryData

SpecData == InitData /\ [][NextData]_vars

\* one execution of runAnalysis on one dataset
InitRun == DataInit /\ ScoringIdle /\ RunInit /\ ForecastIdle

NextRun ==
    \/ RunStart
    \/ RunGetCountries
    \/ RunGetCountriesThrows
    \/ RunIterate
    \/ RunSetResults
    \/ RunFinally

SpecRun == InitRun /\ [][NextRun]_vars

\* runAnalysis run to its end: an async function goes on after every await
\* that settles, and every request made here settles (a result, a non-OK
\* status or a network error).  Datasets of one year per country.
LiveDatasets ==
    UNION {[1..n -> {Row(c, FirstYear, p) : c \in CountryNames, p \in RowProfiles}] :
             n \in 0..MaxRows}

InitRunLive ==
    /\ rows \in LiveDatasets
    /\ riskMap = NoRiskMap
    /\ countryData = NotCalled
    /\ LoaderIdle
    /\ ScoringIdle /\ RunInit /\ ForecastIdle

SpecRunLive == InitRunLive /\ [][NextRun]_vars /\ WF_vars(NextRun)

\* one call of generateCrisisReport on one result list
InitReport ==
    /\ ReportInit /\ ScoringIdle /\ ForecastIdle
    /\ rows = <<>> /\ riskMap = NoRiskMap /\ countryData = NotCalled
    /\ LoaderIdle

NextReport == CallGenerateCrisisReport

SpecReport == InitReport /\ [][NextReport]_vars

\* one call of forecastIndicator on one history
InitForecast ==
    /\ ForecastInit /\ ScoringIdle /\ RunIdle
    /\ rows = <<>> /\ riskMap = NoRiskMap /\ countryData = NotCalled
    /\ LoaderIdle

NextForecast == CallForecastIndicator

SpecForecast == InitForecast /\ [][NextForecast]_vars

\* one call of calculateGrowthRate on one series
InitGrowth ==
    /\ GrowthInit /\ ScoringIdle /\ RunIdle
    /\ rows = <<>> /\ riskMap = NoRiskMap /\ countryData = NotCalled
    /\ LoaderIdle

NextGrowth == CallCalculateGrowthRate

SpecGrowth == InitGrowth /\ [][NextGrowth]_vars

\* calls of the scoring and forecasting functions, one after another on the
\* same argument: a record for the scoring functions, a series for
\* forecastIndicator and calculateGrowthRate
PureSeries == UNION {[1..n -> [year : HistoryYears, value : {1, 2}]] : n \in 0..MaxPoints}

InitPure ==
    /\ \/ /\ ScoringInit /\ fn # "calculateOverallRiskScore"
          /\ ForecastIdle
       \/ /\ ScoringIdle
          /\ historicalData \in PureSeries
          /\ yearsToForecast = 1
          /\ forecast = NoForecast
          /\ growthRate = NoGrowthRate
    /\ rows = <<>> /\ riskMap = NoRiskMap /\ countryData = NotCalled
    /\ LoaderIdle
    /\ RunIdle

NextPure ==
    \/ CallCalculateRiskScore
    \/ CallAnalyzeEconomicCrisis
    \/ CallAnalyzeFoodCrisis
    \/ CallForecastIndicator
    \/ CallCalculateGrowthRate

SpecPure == InitPure /\ [][NextPure]_vars

(***************************************************************************)
(* Dashboard: the countryRiskData prop of the world map, computed inline   *)
(* for each row of the latest year                                         *)
(***************************************************************************)
\* the guards without !isNaN(...)
DashboardRowRiskNoNaNGuard(row) ==
    LET gdp == IF Defined(row.gdpGrowth)
               THEN [factors |-> 1,
                     risk |-> IF Lt(row.gdpGrowth, Num(Fx(-3))) THEN 30
                              ELSE IF Lt(row.gdpGrowth, Num(Fx(0))) THEN 15
                              ELSE IF Lt(row.gdpGrowth, Num(Fx(2))) THEN 10 ELSE 0]
               ELSE [factors |-> 0, risk |-> 0]
        infl == IF Defined(row.inflation)
                THEN [factors |-> 1,
                      risk |-> IF Gt(row.inflation, Num(Fx(20))) THEN 25
                               ELSE IF Gt(row.inflation, Num(Fx(10))) THEN 15
                               ELSE IF Gt(row.inflation, Num(Fx(5))) THEN 5 ELSE 0]
                ELSE [factors |-> 0, risk |-> 0]
        unem == IF Defined(row.unemployment)
                THEN [factors |-> 1,
                      risk |-> IF Gt(row.unemployment, Num(Fx(20))) THEN 20
                               ELSE IF Gt(row.unemployment, Num(Fx(10))) THEN 10
                               ELSE IF Gt(row.unemployment, Num(Fx(7))) THEN 5 ELSE 0]
                ELSE [factors |-> 0, risk |-> 0]
        food == IF Defined(row.foodProductionIndex)
                THEN [factors |-> 1,
                      risk |-> IF Lt(row.foodProductionIndex, Num(Fx(80))) THEN 20
                               ELSE IF Lt(row.foodProductionIndex, Num(Fx(90))) THEN 10
                               ELSE IF Lt(row.foodProductionIndex, Num(Fx(95))) THEN 5 ELSE 0]
                ELSE [factors |-> 0, risk |-> 0]
        risk == gdp.risk + infl.risk + unem.risk + food.risk
        factors == gdp.factors + infl.factors + unem.factors + food.factors
    IN IF factors > 0 THEN MathMin(100, risk) ELSE 50

\* latestData.forEach(row => { let risk = 0; let factors = 0; ...
\*   riskMap[row.countryName] = factors > 0 ? Math.min(100, risk) : 50 })
DashboardRowRisk(row) ==
    LET gdp == IF Defined(row.gdpGrowth) /\ ~isNaN(row.gdpGrowth)
               THEN [factors |-> 1,
                     risk |-> IF Lt(row.gdpGrowth, Num(Fx(-3))) THEN 30
                              ELSE IF Lt(row.gdpGrowth, Num(Fx(0))) THEN 15
                              ELSE IF Lt(row.gdpGrowth, Num(Fx(2))) THEN 10 ELSE 0]
               ELSE [factors |-> 0, risk |-> 0]
        infl == IF Defined(row.inflation) /\ ~isNaN(row.inflation)
                THEN [factors |-> 1,
                      risk |-> IF Gt(row.inflation, Num(Fx(20))) THEN 25
                               ELSE IF Gt(row.inflation, Num(Fx(10))) THEN 15
                               ELSE IF Gt(row.inflation, Num(Fx(5))) THEN 5 ELSE 0]
                ELSE [factors |-> 0, risk |-> 0]
        unem == IF Defined(row.unemployment) /\ ~isNaN(row.unemployment)
                THEN [factors |-> 1,
                      risk |-> IF Gt(row.unemployment, Num(Fx(20))) THEN 20
                               ELSE IF Gt(row.unemployment, Num(Fx(10))) THEN 10
                               ELSE IF Gt(row.unemployment, Num(Fx(7))) THEN 5 ELSE 0]
                ELSE [factors |-> 0, risk |-> 0]
        food == IF Defined(row.foodProductionIndex) /\ ~isNaN(row.foodProductionIndex)
                THEN [factors |-> 1,
                      risk |-> IF Lt(row.foodProductionIndex, Num(Fx(80))) THEN 20
                               ELSE IF Lt(row.foodProductionIndex, Num(Fx(90))) THEN 10
                               ELSE IF Lt(row.foodProductionIndex, Num(Fx(95))) THEN 5 ELSE 0]
                ELSE [factors |-> 0, risk |-> 0]
        risk == gdp.risk + infl.risk + unem.risk + food.risk
        factors == gdp.factors + infl.factors + unem.factors + food.factors
    IN IF factors > 0 THEN MathMin(100, risk) ELSE 50

\* a row of the latest year: each indicator absent, NaN or a value on
\* either side of a threshold
DashboardVals(S) == {Undefined, NaN} \cup {Num(x) : x \in S}

DashboardRows ==
    [gdpGrowth : DashboardVals({Fx(-4), Fx(-3), Fx(-1), Fx(0), Fx(1), Fx(2)}),
     inflation : DashboardVals({Fx(5), Fx(6), Fx(10), Fx(11), Fx(20), Fx(21)}),
     unemployment : DashboardVals({Fx(7), Fx(8), Fx(10), Fx(11), Fx(20), Fx(21)}),
     foodProductionIndex : DashboardVals({Fx(79), Fx(80), Fx(89), Fx(90), Fx(94), Fx(95)}),
     foodImports : {Undefined, Num(Fx(26))},
     populationGrowth : {Undefined, Num(Fx(4))}]

DashboardFns == {"calculateRiskScore", "Dashboard.countryRiskData"}

DashboardInit ==
    /\ fn \in DashboardFns
    /\ data \in DashboardRows
    /\ result = NoResult

CallDashboardRowRisk ==
    /\ fn = "Dashboard.countryRiskData" /\ result = NoResult
    /\ result' = [score |-> DashboardRowRisk(data), fired |-> <<>>]
    /\ UNCHANGED <<fn, data, dataVars, runVars, forecastVars, loaderVars>>

InitDashboard ==
    /\ DashboardInit
    /\ rows = <<>> /\ riskMap = NoRiskMap /\ countryData = NotCalled
    /\ LoaderIdle
    /\ RunIdle /\ ForecastIdle

NextDashboard ==
    \/ CallCalculateRiskScore
    \/ CallDashboardRowRisk

SpecDashboard == InitDashboard /\ [][NextDashboard]_vars

InitLoader ==
    /\ LoaderInit
    /\ rows = <<>> /\ riskMap = NoRiskMap
    /\ countryData = NotCalled
    /\ ScoringIdle /\ RunIdle /\ ForecastIdle

NextLoader ==
    \E c \in Callers :
        \/ CallLoadEconomicData(c)
        \/ EconomicParseComplete(c)
        \/ LoadEconomicDataThrows(c)
        \/ CallLoadFoodData(c)
        \/ FoodDataMapped(c)
        \/ LoadFoodDataThrows(c)

SpecLoader == InitLoader /\ [][NextLoader]_vars


(***************************************************************************)
(* Properties of the scoring functions                                     *)
(***************************************************************************)
RiskFns == {"calculateRiskScore", "calculateOverallRiskScore"}

AnalyzeFns == {"analyzeEconomicCrisis", "analyzeFoodCrisis"}

FieldsOf(f) ==
    CASE f = "calculateRiskScore" ->
           {"gdpGrowth", "inflation", "unemployment", "foodProductionIndex",
            "foodImports", "populationGrowth"}
      [] f = "calculateOverallRiskScore" ->
           {"gdpGrowth", "inflation", "unemployment", "foodProductionIndex",
            "foodImports"}
      [] f = "analyzeEconomicCrisis" ->
           {"gdpGrowth", "inflation", "unemployment", "domesticCredit",
            "exports", "imports"}
      [] OTHER ->
           {"cerealYield", "foodImports", "foodProductionIndex", "gdpGrowth",
            "gdpPerCapita", "inflation", "populationGrowth"}

\* every measured field of the record is absent
AllAbsent == \A f \in FieldsOf(fn) : ~Defined(data[f])

\* C1: every score returned by calculateRiskScore and calculateOverallRiskScore,
\* and every probability returned by the rule-based analyzeEconomicCrisis and
\* analyzeFoodCrisis, lies in 0..100 inclusive, whatever fields are present.
C1_ScoreWithinBounds ==
    Returned =>
      /\ fn \in RiskFns => result.score >= 0 /\ result.score <= 100
      /\ fn \in AnalyzeFns =>
           /\ ~FracLt(result.probability, Frac(0, 1))
           /\ ~FracLt(Frac(100, 1), result.probability)

\* C1 witness: the weights that fired add up to more than 100 and the score
\* returned by calculateRiskScore is the clamp, 100.
C1_Witness ==
    /\ Returned /\ fn = "calculateRiskScore"
    /\ SumSeq([k \in 1..Len(result.fired) |-> result.fired[k].weight]) > 100
    /\ result.score = 100

\* C2: a record whose measured fields are all absent yields score exactly 50
\* and an empty factor list in every scoring function.
C2_AllAbsentYieldsNeutral ==
    (Returned /\ AllAbsent) =>
      /\ fn \in RiskFns => result.score = 50 /\ result.fired = <<>>
      /\ fn \in AnalyzeFns =>
           /\ FracEq(result.probability, Frac(50, 1))
           /\ result.topIndicators = <<>>

\* the fields a fired entry's rule reads
DependsOn(name) ==
    CASE name \in {"GDP Growth (Contraction)", "GDP Growth (Low)", "gdpGrowth"} ->
           {"gdpGrowth"}
      [] name \in {"Inflation Rate (High)", "inflation"} -> {"inflation"}
      [] name \in {"Unemployment Rate (High)", "unemployment"} -> {"unemployment"}
      [] name = "Domestic Credit (Excessive)" -> {"domesticCredit"}
      [] name = "Exports (Weak)" -> {"exports"}
      [] name = "Trade Balance (Deficit)" -> {"imports", "exports"}
      [] name = "Cereal Yield (Low)" -> {"cerealYield"}
      [] name \in {"Food Imports (High Dependency)", "foodImports"} -> {"foodImports"}
      [] name \in {"Food Production Index (Low)", "foodProductionIndex"} ->
           {"foodProductionIndex"}
      [] name = "GDP Per Capita (Below Poverty Line)" -> {"gdpPerCapita"}
      [] name = "Population Growth (High Pressure)" -> {"populationGrowth"}
      [] name = "populationPressure" -> {"populationGrowth", "foodProductionIndex"}

\* C3: in calculateRiskScore and the rule-based analyzers no rule fires (adds
\* to the score, or enters the fired list) while a field it reads is absent;
\* so the trade-balance rule needs imports and exports, and the
\* population-pressure rule needs populationGrowth and foodProductionIndex.
C3_AbsentFieldNeverFires ==
    (Returned /\ fn \in AnalyzeFns \cup {"calculateRiskScore"}) =>
      \A k \in 1..Len(result.fired) :
        \A f \in DependsOn(result.fired[k].name) : Defined(data[f])

\* C3 witness: imports present, exports absent, and some other rule fired.
C3_Witness ==
    /\ Returned /\ fn = "analyzeEconomicCrisis"
    /\ Defined(data.imports) /\ ~Defined(data.exports)
    /\ Gt(data.imports, Num(Fx(20)))
    /\ Len(result.fired) > 0

\* the position of a fired rule in declaration order
PosIn(fired, name) == CHOOSE k \in 1..Len(fired) : fired[k].name = name

\* a ranks before b: larger impact, or equal impact and declared earlier
RanksBefore(fired, a, b) ==
    \/ a.impact.v > b.impact.v
    \/ a.impact.v = b.impact.v /\ PosIn(fired, a.name) < PosIn(fired, b.name)

\* C5: topIndicators has at most 3 entries, ordered by impact descending with
\* equal impacts in rule-declaration order, and it is exactly the first 3 of
\* the fired rules under that ordering.
C5_TopIndicatorsOrdered ==
    (Returned /\ fn \in AnalyzeFns) =>
      LET top == result.topIndicators
          fired == result.fired
          inTop(e) == \E m \in 1..Len(top) : top[m] = e
      IN /\ Len(top) <= 3
         /\ Len(top) = MathMin(3, Len(fired))
         /\ \A m \in 1..Len(top) : \E k \in 1..Len(fired) : fired[k] = top[m]
         /\ \A m, n \in 1..Len(top) : m < n => RanksBefore(fired, top[m], top[n])
         /\ \A k \in 1..Len(fired) :
              ~inTop(fired[k]) =>
                 \A m \in 1..Len(top) : RanksBefore(fired, top[m], fired[k])

\* C5 witness: more than 3 rules fired, two entries of the top list have equal
\* impact, and a fired rule left out ties with the last entry kept.
C5_Witness ==
    /\ Returned /\ fn \in AnalyzeFns
    /\ Len(result.fired) > 3
    /\ \E m, n \in 1..Len(result.topIndicators) :
         m < n /\ result.topIndicators[m].impact = result.topIndicators[n].impact
    /\ \E k \in 1..Len(result.fired) :
         /\ \A m \in 1..Len(result.topIndicators) :
              result.topIndicators[m] # result.fired[k]
         /\ result.fired[k].impact = result.topIndicators[3].impact

(***************************************************************************)
(* Properties of the dataset functions and of runAnalysis                  *)
(***************************************************************************)
CountriesWithRows == {rows[k].countryName : k \in 1..Len(rows)}

\* the rows of a country that carry its maximum year
MaxYearRows(countryName) ==
    LET own == RowsOf(rows, countryName)
    IN SelectSeq(own, LAMBDA row : row.year = MathMaxOf(YearsIn(own)))

\* C4: in runAnalysis, a field absent from the source record (latestData) is
\* never handed to the analysis as a number: it stays absent, distinct from a
\* field present with value 0.
C4_AbsentFieldNotSubstituted ==
    \A k \in 1..Len(requests) :
      \A f \in DOMAIN requests[k].input :
        ~Defined(Get(requests[k].latestData, SourceField(f)))
          => ~IsNumber(requests[k].input[f])

\* C6: calculateCountryRisks returns one score for exactly the countries that
\* have a row, each computed from that country's own maximum-year row.
C6_OneScorePerCountryFromOwnLatest ==
    riskMap.called =>
      /\ DOMAIN riskMap.scores = CountriesWithRows
      /\ \A c \in DOMAIN riskMap.scores :
           \E k \in 1..Len(MaxYearRows(c)) :
             riskMap.scores[c] = calculateRiskScore(RiskDataOf(MaxYearRows(c)[k])).score

\* C7: for a country with at least one row, the latestData of getCountryData
\* is a row of that country with its maximum year, whatever the row order.
C7_LatestDataIsMaxYear ==
    (countryData # NotCalled /\ countryData # Null) =>
      countryData.latestData.year
        = MathMaxOf(YearsIn(RowsOf(rows, countryData.countryName)))

\* the 1-based position of a country in the country list
ListIndex(country) == CHOOSE k \in 1..Len(countries) : countries[k] = country

\* C8: the result list set by runAnalysis is sorted by probability descending,
\* and countries with equal probability keep their country-list order.
C8_ResultsSortedStable ==
    pc \in {"finally", "done"} =>
      \A m, n \in 1..Len(results) :
        m < n =>
          \/ results[m].probability > results[n].probability
          \/ /\ results[m].probability = results[n].probability
             /\ ListIndex(results[m].country) < ListIndex(results[n].country)

\* C8 witness: the finished run lists two countries with equal probability.
C8_Witness ==
    /\ pc = "done"
    /\ \E m, n \in 1..Len(results) :
         m < n /\ results[m].probability = results[n].probability

(***************************************************************************)
(* Properties of forecastIndicator                                         *)
(***************************************************************************)
\* C9: with fewer than 3 historical points forecastIndicator returns the
\* empty sequence for every horizon; with 3 or more it returns a non-empty one.
C9_ShortHistoryYieldsEmpty ==
    forecast.called =>
      (Len(historicalData) < 3 <=> forecast.points = <<>>)

\* C9 witness: a call with exactly 2 points and a positive horizon returned.
C9_Witness ==
    /\ forecast.called
    /\ Len(historicalData) = 2 /\ yearsToForecast > 0

\* the points lie on one line, at pairwise distinct years
Collinear(h) ==
    /\ \A m, n \in 1..Len(h) : m # n => h[m].year # h[n].year
    /\ \A m, n, k \in 1..Len(h) :
         (h[n].value - h[m].value) * (h[k].year - h[m].year)
           = (h[k].value - h[m].value) * (h[n].year - h[m].year)

\* the point p lies on the line through h[1] and h[2]
OnLineOf(h, p) ==
    (p.value - h[1].value) * (h[2].year - h[1].year)
      = (h[2].value - h[1].value) * (p.year - h[1].year)

\* C10: for at least 3 collinear historical points at distinct years, every
\* forecast value lies exactly on their line.
C10_CollinearForecastExact ==
    (forecast.called /\ Len(historicalData) >= 3 /\ Collinear(historicalData)) =>
      \A k \in 1..Len(forecast.points) :
        ~forecast.points[k].isHistorical => OnLineOf(historicalData, forecast.points[k])

\* the example of the specification: (2020,10), (2021,12), (2022,14), horizon 2
C10_ExampleHolds ==
    (/\ forecast.called
     /\ historicalData = << [year |-> 2020, value |-> 10000],
                            [year |-> 2021, value |-> 12000],
                            [year |-> 2022, value |-> 14000] >>
     /\ yearsToForecast = 2) =>
      /\ forecast.points[4] = [year |-> 2023, value |-> 16000, isHistorical |-> FALSE]
      /\ forecast.points[5] = [year |-> 2024, value |-> 18000, isHistorical |-> FALSE]

(***************************************************************************)
(* C11: for every input of at least 3 points, the points of the output     *)
(* flagged isHistorical are exactly the input points: each input           *)
(* (year, value) pair occurs among them as often as in the input, with its *)
(* value unchanged; the fit alters, drops and adds none.                   *)
(***************************************************************************)
CountOf(x, s) == Cardinality({k \in 1..Len(s) : s[k] = x})

HistoricalPart(points) ==
    LET IsHist(p) == p.isHistorical
        hist == SelectSeq(points, IsHist)
    IN [k \in 1..Len(hist) |-> [year |-> hist[k].year, value |-> hist[k].value]]

C11_HistoricalVerbatim ==
    (forecast.called /\ Len(historicalData) >= MinHistory) =>
        LET hist == HistoricalPart(forecast.points)
        IN /\ Len(hist) = Len(historicalData)
           /\ \A p \in Points : CountOf(p, hist) = CountOf(p, historicalData)

\* an unsorted input whose points are off the fitted line, with a horizon
C11_Witness ==
    /\ forecast.called
    /\ Len(historicalData) >= MinHistory
    /\ yearsToForecast >= 1
    /\ historicalData[1].year > historicalData[2].year
    /\ \E k \in 1..Len(historicalData) :
          Predict(RegressionLinear(SortByYear(historicalData)), historicalData[k].year)
              # historicalData[k].value
    /\ Len(HistoricalPart(forecast.points)) = Len(historicalData)

(***************************************************************************)
(* C12: in every non-empty output of forecastIndicator, the points up to   *)
(* the last observed year are flagged isHistorical, the later ones are     *)
(* not, and the years increase strictly by exactly one from each point to  *)
(* the next.                                                               *)
(***************************************************************************)
LastObservedYear == MathMaxOf({historicalData[k].year : k \in 1..Len(historicalData)})

C12_FlagsFollowLastObservedYear ==
    (forecast.called /\ forecast.points # <<>>) =>
        \A k \in 1..Len(forecast.points) :
            forecast.points[k].isHistorical
                <=> (forecast.points[k].year <= LastObservedYear)

C12_StrictlyIncreasingNoGaps ==
    (forecast.called /\ forecast.points # <<>>) =>
        /\ C12_FlagsFollowLastObservedYear
        /\ \A k \in 1..(Len(forecast.points) - 1) :
              forecast.points[k + 1].year = forecast.points[k].year + 1

(***************************************************************************)
(* C13: calculateGrowthRate returns 0 when fewer than 2 points are given,  *)
(* when the earliest point's value is 0, or when the first and last points *)
(* have the same year; otherwise it returns the compound rate between the  *)
(* earliest-year point and the latest-year point.                          *)
(***************************************************************************)
MathMinOf(S) == CHOOSE m \in S : \A x \in S : m <= x

SeriesYears(series) == {series[k].year : k \in 1..Len(series)}

\* of the points of the smallest year, the one given first
EarliestPoint(series) ==
    series[MathMinOf({k \in 1..Len(series) : series[k].year = MathMinOf(SeriesYears(series))})]

\* of the points of the largest year, the one given last
LatestPoint(series) ==
    series[MathMaxOf({k \in 1..Len(series) : series[k].year = MathMaxOf(SeriesYears(series))})]

C13_GrowthRateGuardedCompound ==
    growthRate.called =>
        IF Len(historicalData) < 2 THEN growthRate.rate = 0
        ELSE LET p == EarliestPoint(historicalData)
                 q == LatestPoint(historicalData)
             IN IF p.value = 0 \/ q.year = p.year THEN growthRate.rate = 0
                ELSE growthRate.rate = Cagr(p.value, q.value, q.year - p.year)

\* a series given latest year first, growing from a non-zero value
C13_Witness ==
    /\ growthRate.called
    /\ Len(historicalData) >= 2
    /\ historicalData[1].year > historicalData[Len(historicalData)].year
    /\ EarliestPoint(historicalData).value # 0
    /\ growthRate.rate > 0

\* the zero guards: an earliest value of 0, and a single year
C13_GuardWitness ==
    /\ growthRate.called
    /\ Len(historicalData) >= 2
    /\ EarliestPoint(historicalData).value = 0
    /\ LatestPoint(historicalData).value > 0
    /\ LatestPoint(historicalData).year > EarliestPoint(historicalData).year
    /\ growthRate.rate = 0

(***************************************************************************)
(* C14: an economic record with gdpGrowth = -4, inflation = 22,            *)
(* unemployment = 18 and every other field present and benign fires        *)
(* exactly the contraction, high-inflation and high-unemployment rules,    *)
(* gets a score in the highest classification band, and its topIndicators  *)
(* list is led by the fired rule of the largest impact.                    *)
(***************************************************************************)
ScenarioCore(d) ==
    /\ d.gdpGrowth = Num(Fx(-4))
    /\ d.inflation = Num(Fx(22))
    /\ d.unemployment = Num(Fx(18))

\* the other fields of the economic model: present, on the safe side
EconomicScenario(d) ==
    /\ ScenarioCore(d)
    /\ IsNumber(d.domesticCredit) /\ d.domesticCredit.v <= Fx(100)
    /\ IsNumber(d.exports) /\ d.exports.v >= Fx(15)
    /\ IsNumber(d.imports) /\ d.imports.v - d.exports.v <= Fx(20)

\* the other fields of calculateRiskScore: present, on the safe side
RiskScenario(d) ==
    /\ ScenarioCore(d)
    /\ IsNumber(d.foodProductionIndex) /\ d.foodProductionIndex.v >= Fx(95)
    /\ IsNumber(d.foodImports) /\ d.foodImports.v <= Fx(15)
    /\ IsNumber(d.populationGrowth) /\ d.populationGrowth.v <= Fx(2)

NamesOf(s) == [k \in 1..Len(s) |-> s[k].name]

\* the part of the scenario about the rules fired and the leading indicator
C14_ScenarioFiresThreeRules ==
    /\ (Returned /\ fn = "analyzeEconomicCrisis" /\ EconomicScenario(data)) =>
          /\ NamesOf(result.fired) = <<"GDP Growth (Contraction)",
                                       "Inflation Rate (High)",
                                       "Unemployment Rate (High)">>
          /\ result.topIndicators # <<>>
          /\ \A k \in 1..Len(result.fired) :
                result.fired[k].impact.v <= result.topIndicators[1].impact.v
    /\ (Returned /\ fn = "calculateRiskScore" /\ RiskScenario(data)) =>
          NamesOf(result.fired) = <<"gdpGrowth", "inflation", "unemployment">>

C14_ScenarioInHighestBand ==
    /\ C14_ScenarioFiresThreeRules
    /\ (Returned /\ fn = "analyzeEconomicCrisis" /\ EconomicScenario(data)) =>
          result.riskLevel = "Severe"
    /\ (Returned /\ fn = "calculateRiskScore" /\ RiskScenario(data)) =>
          /\ CoverRiskLevel(result.score) = "HIGH"
          /\ getRiskLabel(result.score) = "High Risk"

(***************************************************************************)
(* C16: classification is a total, monotone function of the clamped score: *)
(* every score in 0..100 falls in exactly one band, a higher score never   *)
(* gets a lower band, and every score above 70 gets the highest band, the  *)
(* same wherever a score is classified.                                    *)
(***************************************************************************)
Classified == fn \in ClassifySites /\ Returned

BandRank(site, band) == CHOOSE k \in 1..Len(BandsOf(site)) : BandsOf(site)[k] = band

IsHighestBand(site, band) == band = BandsOf(site)[Len(BandsOf(site))]

\* total and monotone, at each place
C16_TotalAndMonotone ==
    Classified =>
        /\ Cardinality({k \in 1..Len(BandsOf(fn)) : BandsOf(fn)[k] = result.band}) = 1
        /\ \A lower \in 0..result.score :
              BandRank(fn, Classify(fn, lower)) <= BandRank(fn, result.band)

C16_ClassificationUniform ==
    Classified =>
        /\ C16_TotalAndMonotone
        /\ (result.score > 70 => IsHighestBand(fn, result.band))
        /\ \A site \in ClassifySites :
              IsHighestBand(site, Classify(site, result.score))
                  <=> IsHighestBand(fn, result.band)

(***************************************************************************)
(* C15: when at least one field is usable, the score is the sum of the     *)
(* fixed weights of the rules that fired, clamped to 0..100; it does not   *)
(* depend on the impact of a firing value, and a record on which no rule   *)
(* fires scores 0, not the neutral 50.                                     *)
(***************************************************************************)
SomeFieldUsable == \E f \in FieldsOf(fn) : Usable(data[f])

\* the weights calculateRiskScore can add for a rule, one per tier
FixedWeights(name) ==
    CASE name = "gdpGrowth" -> {30, 15, 10}
      [] name = "inflation" -> {25, 15, 5}
      [] name = "unemployment" -> {20, 10, 5}
      [] name = "foodProductionIndex" -> {20, 10, 5}
      [] name = "foodImports" -> {10, 5}
      [] name = "populationPressure" -> {15, 5}

FiredWeightSum == SumSeq([k \in 1..Len(result.fired) |-> result.fired[k].weight])

RuleCountOf(f) == IF f = "analyzeEconomicCrisis" THEN EconomicRuleCount ELSE FoodRuleCount

SumOfFixedWeights ==
    /\ fn = "calculateRiskScore" =>
          /\ \A k \in 1..Len(result.fired) :
                result.fired[k].weight \in FixedWeights(result.fired[k].name)
          /\ result.score = MathMin(100, FiredWeightSum)
    /\ fn \in AnalyzeFns =>
          FracEq(result.probability,
                 FracMin100(Frac(100 * Len(result.fired), RuleCountOf(fn))))

\* the same, for the records on which calculateRiskScore counted a factor
C15_SumOfWeightsWhenCounted ==
    (Returned /\ fn \in {"calculateRiskScore"} \cup AnalyzeFns
              /\ (fn = "calculateRiskScore" => CountedSteps(RiskSteps(data)) # <<>>)
              /\ (fn \in AnalyzeFns => SomeFieldUsable))
        => SumOfFixedWeights

C15_ScoreIsSumOfFixedWeights ==
    (Returned /\ fn \in {"calculateRiskScore"} \cup AnalyzeFns /\ SomeFieldUsable)
        => SumOfFixedWeights

(***************************************************************************)
(* C17: in a batch run a country for which no record exists is left out of *)
(* the output without an error, and a country whose only record has no     *)
(* usable field is in the output with score 50.                            *)
(***************************************************************************)
MeasuredFields ==
    {"domesticCredit", "exports", "gdpGrowth", "gdpPerCapita", "grossCapital",
     "imports", "inflation", "unemployment", "cerealYield", "foodImports",
     "foodProductionIndex", "populationGrowth"}

NoUsableField(row) == \A f \in MeasuredFields : ~Usable(row[f])

\* the countries whose only record has no usable field
OnlyRecordUnusable ==
    {c \in CountryNames :
        /\ Len(RowsOf(rows, c)) = 1
        /\ NoUsableField(RowsOf(rows, c)[1])}

ResultCountries == {results[k].country : k \in 1..Len(results)}

\* the first half: no record, no result, and the run completes
C17_NoRecordLeftOut ==
    pc = "done" =>
        \A c \in CountryNames : RowsOf(rows, c) = <<>> => c \notin ResultCountries

C17_UnusableRecordScoresNeutral ==
    /\ C17_NoRecordLeftOut
    /\ pc = "done" =>
          \A c \in OnlyRecordUnusable :
              \E k \in 1..Len(results) :
                  results[k].country = c /\ results[k].probability = NeutralScore
    /\ riskMap.called =>
          \A c \in OnlyRecordUnusable :
              c \in DOMAIN riskMap.scores /\ riskMap.scores[c] = NeutralScore

(***************************************************************************)
(* C18: after runAnalysis has completed, the result list holds exactly the *)
(* analysed countries whose score is strictly above the threshold 50.      *)
(***************************************************************************)
C18_ResultsExactlyAboveThreshold ==
    pc \in {"finally", "done"} =>
        /\ \A k \in 1..Len(results) : results[k].probability > 50
        /\ \A k \in 1..Len(requests) :
              requests[k].probability > 50 =>
                  \E n \in 1..Len(results) :
                      /\ results[n].country = requests[k].country
                      /\ results[n].probability = requests[k].probability
        /\ \A n \in 1..Len(results) :
              \E k \in 1..Len(requests) :
                  /\ requests[k].country = results[n].country
                  /\ requests[k].probability = results[n].probability
        /\ Len(results) = Cardinality({k \in 1..Len(requests) : requests[k].probability > 50})

\* a finished run with one country at the threshold and one above it
C18_Witness ==
    /\ pc = "done"
    /\ \E k \in 1..Len(requests) : requests[k].probability = 50
    /\ \E k \in 1..Len(requests) : requests[k].probability > 50
    /\ Len(results) = 1

(***************************************************************************)
(* C19: analyzeEconomicCrisis and analyzeFoodCrisis never throw: for every *)
(* input, non-finite fields included, and every outcome of the backend     *)
(* call, the promise is fulfilled with a CrisisResult; on a failure that   *)
(* result has probability 0, no topIndicators and an error classification. *)
(***************************************************************************)
AnalysisFailed == ~ValidInput(data.input) \/ data.outcome.kind # "ok"

C19_AnalysisNeverThrows ==
    (fn \in ApiFns /\ Returned) =>
        /\ result.state = "fulfilled"
        /\ DOMAIN result.value = {"country", "probability", "classification", "topIndicators"}
        /\ AnalysisFailed =>
              /\ result.value.probability = 0
              /\ result.value.topIndicators = <<>>
              /\ result.value.classification
                    \in {"Error: Invalid input data", "Error: Analysis failed"}

\* a valid input whose request fails
C19_Witness ==
    /\ fn \in ApiFns /\ Returned
    /\ ValidInput(data.input)
    /\ data.outcome.kind = "networkError"
    /\ result.value.classification = "Error: Analysis failed"

(***************************************************************************)
(* C20: generateCrisisReport leaves the results array it receives as it    *)
(* was: the same elements in the same order, each with its topIndicators   *)
(* in the same order and with the same contents.                           *)
(***************************************************************************)
C20_ReportLeavesResultsUnchanged ==
    report.generated => results = report.received

\* a list given lowest probability first, with indicators not in impact order
C20_Witness ==
    /\ report.generated
    /\ Len(report.received) >= 2
    /\ report.received[1].probability < report.received[2].probability
    /\ report.received[1].topIndicators # <<>>
    /\ report.sortedResults # report.received

(***************************************************************************)
(* C21: calculateRiskScore, the rule-based analyzeEconomicCrisis and       *)
(* analyzeFoodCrisis, forecastIndicator and calculateGrowthRate leave      *)
(* their input record or array as it was, contents and order, and what     *)
(* each returns is what a second call on the same input returns.           *)
(***************************************************************************)
C21_CallStep ==
    /\ data' = data
    /\ historicalData' = historicalData
    /\ (result' # result) =>
          result' = (CASE fn = "calculateRiskScore" -> calculateRiskScore(data')
                       [] fn = "analyzeEconomicCrisis" -> analyzeEconomicCrisis(data')
                       [] OTHER -> analyzeFoodCrisis(data'))
    /\ (forecast' # forecast) =>
          forecast'.points = forecastIndicator(historicalData', yearsToForecast')
    /\ (growthRate' # growthRate) =>
          growthRate'.rate = calculateGrowthRate(historicalData')

SingleYear == Cardinality(SeriesYears(historicalData)) = 1

ValueSum == SumSeq([k \in 1..Len(historicalData) |-> historicalData[k].value])

C22_SingleYearStillForecasts ==
    (forecast.called /\ Len(historicalData) >= MinHistory /\ SingleYear) =>
        /\ Len(forecast.points) = Len(historicalData) + yearsToForecast
        /\ \A k \in 1..Len(forecast.points) :
              ~forecast.points[k].isHistorical =>
                  forecast.points[k].value = Round2(ValueSum, Len(historicalData))

C22_Witness ==
    /\ forecast.called /\ Len(historicalData) >= MinHistory /\ SingleYear
    /\ yearsToForecast >= 1
    /\ historicalData[1].value # historicalData[2].value
    /\ ~forecast.points[Len(forecast.points)].isHistorical

(***************************************************************************)
(* C23: for at least 3 historical points and a horizon h >= 0, the output  *)
(* of forecastIndicator is the historical points followed by exactly h     *)
(* forecast points of the years lastYear + 1, ..., lastYear + h in that    *)
(* order; its length is the number of historical points plus h.            *)
(***************************************************************************)
C23_HistoryThenHorizonPoints ==
    (forecast.called /\ Len(historicalData) >= MinHistory) =>
        LET count == Len(historicalData)
        IN /\ Len(forecast.points) = count + yearsToForecast
           /\ \A k \in 1..count : forecast.points[k].isHistorical
           /\ \A k \in 1..yearsToForecast :
                 /\ ~forecast.points[count + k].isHistorical
                 /\ forecast.points[count + k].year = LastObservedYear + k

C23_Witness ==
    /\ forecast.called /\ Len(historicalData) >= MinHistory
    /\ yearsToForecast = MaxHorizon
    /\ Len(forecast.points) = Len(historicalData) + MaxHorizon
    /\ historicalData[Len(historicalData)].year < LastObservedYear

(***************************************************************************)
(* C24: every fired-rule entry of analyzeEconomicCrisis and                *)
(* analyzeFoodCrisis, before the top 3 are taken, has impact >= 0, and the *)
(* entries are in rule-declaration order, each rule at most once.          *)
(***************************************************************************)
DeclaredRuleNames(f) ==
    IF f = "analyzeEconomicCrisis"
    THEN NamesOf(EconomicRules(data))
    ELSE NamesOf(FoodRules(data))

DeclarationIndex(f, name) ==
    CHOOSE k \in 1..Len(DeclaredRuleNames(f)) : DeclaredRuleNames(f)[k] = name

C24_FiredEntriesOrderedNonNegative ==
    (Returned /\ fn \in AnalyzeFns) =>
        /\ \A k \in 1..Len(result.fired) :
              IsNumber(result.fired[k].impact) /\ result.fired[k].impact.v >= 0
        /\ \A m, n \in 1..Len(result.fired) :
              m < n => DeclarationIndex(fn, result.fired[m].name)
                         < DeclarationIndex(fn, result.fired[n].name)

\* a contraction among several fired rules
C24_Witness ==
    /\ Returned /\ fn = "analyzeEconomicCrisis"
    /\ Len(result.fired) >= 3
    /\ result.fired[1].name = "GDP Growth (Contraction)"
    /\ data.gdpGrowth.v < 0

(***************************************************************************)
(* C25: in the validating analyzeEconomicCrisis / analyzeFoodCrisis the    *)
(* input is validated before any request: when a required field, or a lag  *)
(* field that is provided, is not finite, the error result is returned and *)
(* no request is sent to the backend for that call.                        *)
(***************************************************************************)
SomeFieldNotFinite ==
    \E f \in DOMAIN data.input :
        /\ ~NumberIsFinite(data.input[f])
        /\ f \in LagFields => Defined(data.input[f])

C25_InvalidInputSendsNoRequest ==
    (fn \in ApiFns /\ Returned /\ SomeFieldNotFinite) =>
        /\ ~result.requested
        /\ result.value.classification = "Error: Invalid input data"
        /\ result.value.probability = 0

\* a call whose only fault is a lag field given as NaN, the backend being up
C25_Witness ==
    /\ fn = "api.analyzeEconomicCrisis.lags" /\ Returned
    /\ data.input.gdpGrowthLag = NaN
    /\ \A f \in DOMAIN data.input \ {"gdpGrowthLag"} : NumberIsFinite(data.input[f])
    /\ data.outcome.kind = "ok"
    /\ ~result.requested

\* an absent lag field is no fault: the request is sent
C25_AbsentLagWitness ==
    /\ fn = "api.analyzeEconomicCrisis.lags" /\ Returned
    /\ ~Defined(data.input.gdpGrowthLag)
    /\ result.requested

(***************************************************************************)
(* C26: in every execution of runAnalysis, whether the country list fails  *)
(* to load, some analysis fails or all succeed, the loading flag set at    *)
(* the start is eventually reset to false, and the progress counter never  *)
(* exceeds the number of countries.                                        *)
(***************************************************************************)
ProgressWithinCountries ==
    /\ progress.current <= Len(countries)
    /\ progress.current <= progress.total

C26_LoadingEventuallyReset ==
    /\ (loading = TRUE) ~> (loading = FALSE)
    /\ []ProgressWithinCountries

\* a finished run over two countries with a failed analysis
C26_Witness ==
    /\ pc = "done" /\ loading = FALSE
    /\ Len(countries) >= 2
    /\ \E k \in 1..Len(requests) : requests[k].classification = "Error: Analysis failed"

\* a finished run whose try block threw before the loop
C26_ThrowWitness ==
    /\ pc = "done" /\ loading = FALSE
    /\ rows # <<>> /\ countries = <<>>

(***************************************************************************)
(* C27: a failure while analysing one country does not abort the batch:    *)
(* every later country of the list is still analysed, and the failed       *)
(* country has no entry in the result list.                                *)
(***************************************************************************)
FailedRequest(k) == requests[k].classification # "backend"

FoodImportsAndPopulationAbsent ==
    data.foodImports = Undefined /\ data.populationGrowth = Undefined

C28_DashboardScoreEqualsCalculateRiskScore ==
    (fn \in DashboardFns /\ result # NoResult /\ FoodImportsAndPopulationAbsent) =>
        /\ fn = "Dashboard.countryRiskData" => result.score = calculateRiskScore(data).score
        /\ fn = "calculateRiskScore" => result.score = DashboardRowRisk(data)

\* the Dashboard has scored a row with a NaN, an absent and two firing fields
C28_Witness ==
    /\ fn = "Dashboard.countryRiskData" /\ result # NoResult
    /\ FoodImportsAndPopulationAbsent
    /\ data.gdpGrowth = NaN /\ data.inflation = Undefined
    /\ data.unemployment = Num(Fx(21)) /\ data.foodProductionIndex = Num(Fx(79))
    /\ result.score = 40

\* the Dashboard has scored a row with nothing usable
C28_NeutralWitness ==
    /\ fn = "Dashboard.countryRiskData" /\ result # NoResult
    /\ FoodImportsAndPopulationAbsent
    /\ data.gdpGrowth = NaN /\ data.inflation = NaN
    /\ data.unemployment = Undefined /\ data.foodProductionIndex = Undefined
    /\ result.score = 50

(***************************************************************************)
(* C29: for any interleaving of concurrent callers of loadEconomicData     *)
(* and loadFoodData, each dataset is fetched at most once (a request that  *)
(* failed aside), and every later call returns the cached rows without a   *)
(* new fetch.                                                              *)
(***************************************************************************)
FetchesOf(dataset) ==
    {k \in 1..Len(fetches) : fetches[k].dataset = dataset /\ fetches[k].status # "failed"}

C29_EachDatasetFetchedAtMostOnce ==
    /\ Cardinality(FetchesOf("economic")) <= 1
    /\ Cardinality(FetchesOf("food")) <= 1

\* the second half: a call that finds the cache set returns its array and
\* makes no request
C29_CallAfterCacheSetUsesCache ==
    \A c \in DOMAIN calls :
        (calls[c].dataset # "none" /\ calls[c].sawCache.set) =>
            /\ calls[c].pc = "returned"
            /\ calls[c].fetchId = 0
            /\ calls[c].returned = ArrayOf(calls[c].sawCache.id)

(***************************************************************************)
(* C30: a load that fails with an exception returns an empty list and      *)
(* leaves the cache unset, so that the next call loads again; a cache,     *)
(* once set, is never replaced or cleared.                                 *)
(***************************************************************************)
C30_Step ==
    /\ economicDataCache.set => economicDataCache' = economicDataCache
    /\ foodDataCache.set => foodDataCache' = foodDataCache

C30_CacheSetOnceNeverReplaced == [][C30_Step]_vars

\* the first half: a failed call has returned [], and a cache is set only
\* by a request that succeeded
C30_FailedLoadReturnsEmptyCacheUnset ==
    /\ \A c \in DOMAIN calls :
          (calls[c].pc = "returned" /\ calls[c].fetchId # 0
             /\ fetches[calls[c].fetchId].status = "failed") =>
              calls[c].returned = EmptyList
    /\ economicDataCache.set =>
          /\ fetches[economicDataCache.id].status = "ok"
          /\ fetches[economicDataCache.id].dataset = "economic"
    /\ foodDataCache.set =>
          /\ fetches[foodDataCache.id].status = "ok"
          /\ fetches[foodDataCache.id].dataset = "food"
    /\ (\A k \in 1..Len(fetches) : fetches[k].status # "ok") =>
          (economicDataCache = NoCache /\ foodDataCache = NoCache)

\* a call made after a failed one has sent a new request
C30_RetryAfterFailure ==
    \E c \in DOMAIN calls :
        /\ calls[c].pc = "fetching" /\ calls[c].fetchId = 2
        /\ fetches[1].status = "failed" /\ fetches[1].dataset = calls[c].dataset
        /\ calls[c].loads = 2

====
